---- MODULE Spec2Model ----
(***************************************************************************)
(* A model of the IRMAseal / PostGuard envelope code:                      *)
(*   - the stream sealer (irmaseal-core/src/stream/rust/sealer.rs) with    *)
(*     the Metadata it builds and serialises (metadata/ser.rs) and the     *)
(*     key derivation it calls (util.rs);                                  *)
(*   - the Header type and its encodings (irmaseal-core/src/metadata.rs);  *)
(*   - the unsealer, whose code is not among the sources and is modelled   *)
(*     from sections 4.4 and 4.5 of the specification.                     *)
(*                                                                         *)
(* Bytes are the numbers 0..255.  The IBKEM and the AEAD are external      *)
(* primitives: the KEM is a small concrete scheme with the contract of     *)
(* section 3 (decapsulation with the matching USK returns the sender's     *)
(* secret, any other USK returns another secret), the AEAD and the hash    *)
(* are symbolic terms (a perfect cipher: a segment opens only under the    *)
(* key and nonce it was sealed with).                                      *)
(***************************************************************************)
EXTENDS Integers, Sequences, FiniteSets, TLC

(***************************************************************************)
(* Bounds of the model.                                                    *)
(***************************************************************************)
\* The segment size the model runs with.  The code's constant
\* SYMMETRIC_CRYPTO_DEFAULT_CHUNK is 65536; the seal loop is parametric in it.
ChunkSize == 2
\* The length of a serialised KEM ciphertext (the scheme's OUTPUT_SIZE).
CtBytes == 3

(***************************************************************************)
(* Constants of the program.                                               *)
(***************************************************************************)
PRELUDE == <<20, 138, 142, 167>>
VERSION_V2 == 2
TAG_SIZE == 16
IV_SIZE == 16
NONCE_SIZE == 7
MAX_METADATA_SIZE == 1048576
DIGEST_SIZE == 64
\* KEY_SIZE is set in constants.rs, which is not among the sources: util.rs
\* copies the digest's tail into a KEY_SIZE array (which needs 32), the
\* specification and AES-128 say 16.  The model runs with either.
KeySizes == {16, 32}

(***************************************************************************)
(* Byte strings.                                                           *)
(***************************************************************************)
Byte == 0..255

BE16(n) == <<(n \div 256) % 256, n % 256>>
BE32(n) == <<(n \div 16777216) % 256, (n \div 65536) % 256, (n \div 256) % 256, n % 256>>
FromBE16(b) == b[1] * 256 + b[2]
FromBE32(b) == ((b[1] * 256 + b[2]) * 256 + b[3]) * 256 + b[4]

RECURSIVE Cat(_)
Cat(ss) == IF ss = <<>> THEN <<>> ELSE Head(ss) \o Cat(Tail(ss))

Take(s, n) == SubSeq(s, 1, n)
Drop(s, n) == SubSeq(s, n + 1, Len(s))
IsPrefix(a, b) == Len(a) <= Len(b) /\ Take(b, Len(a)) = a

\* Lexicographic order on byte strings: the order of a BTreeMap<String, _>.
RECURSIVE StrLess(_, _)
StrLess(a, b) ==
  IF b = <<>> THEN FALSE
  ELSE IF a = <<>> THEN TRUE
  ELSE IF Head(a) # Head(b) THEN Head(a) < Head(b)
  ELSE StrLess(Tail(a), Tail(b))

\* The keys of a map in BTreeMap iteration order.
RECURSIVE SortedKeys(_)
SortedKeys(S) ==
  IF S = {} THEN <<>>
  ELSE LET m == CHOOSE x \in S : \A y \in S \ {x} : StrLess(x, y)
       IN <<m>> \o SortedKeys(S \ {m})

(***************************************************************************)
(* The serde data model: what a Serialize implementation hands to a        *)
(* serializer.  A struct is a "map" of field names, a tuple or array an    *)
(* "arr", None and unit a "nil", an enum variant a "var".                  *)
(***************************************************************************)
VNil == [t |-> "nil"]
VInt(n) == [t |-> "int", n |-> n]
VStr(s) == [t |-> "str", s |-> s]
VArr(xs) == [t |-> "arr", xs |-> xs]
VMap(kvs) == [t |-> "map", kvs |-> kvs]
VVar(idx, name, body) == [t |-> "var", idx |-> idx, name |-> name, body |-> body]

VBytes(bs) == VArr([i \in 1..Len(bs) |-> VInt(bs[i])])

(***************************************************************************)
(* MessagePack, as rmp encodes it: the shortest marker for every value.    *)
(***************************************************************************)
MpUInt(n) ==
  IF n < 128 THEN <<n>>
  ELSE IF n < 256 THEN <<204, n>>
  ELSE IF n < 65536 THEN <<205>> \o BE16(n)
  ELSE <<206>> \o BE32(n)

MpStrHdr(n) ==
  IF n < 32 THEN <<160 + n>>
  ELSE IF n < 256 THEN <<217, n>>
  ELSE IF n < 65536 THEN <<218>> \o BE16(n)
  ELSE <<219>> \o BE32(n)

MpArrHdr(n) ==
  IF n < 16 THEN <<144 + n>>
  ELSE IF n < 65536 THEN <<220>> \o BE16(n)
  ELSE <<221>> \o BE32(n)

MpMapHdr(n) ==
  IF n < 16 THEN <<128 + n>>
  ELSE IF n < 65536 THEN <<222>> \o BE16(n)
  ELSE <<223>> \o BE32(n)

\* sv: whether enum variants are written by name (with_string_variants) or by
\* index.  Structs are always maps of field names (with_struct_map).
RECURSIVE MpEnc(_, _)
MpEnc(v, sv) ==
  CASE v.t = "nil" -> <<192>>
    [] v.t = "int" -> MpUInt(v.n)
    [] v.t = "str" -> MpStrHdr(Len(v.s)) \o v.s
    [] v.t = "arr" -> MpArrHdr(Len(v.xs)) \o Cat([i \in 1..Len(v.xs) |-> MpEnc(v.xs[i], sv)])
    [] v.t = "map" -> MpMapHdr(Len(v.kvs)) \o
                      Cat([i \in 1..Len(v.kvs) |-> MpEnc(v.kvs[i][1], sv) \o MpEnc(v.kvs[i][2], sv)])
    [] v.t = "var" -> MpMapHdr(1) \o
                      (IF sv THEN MpEnc(VStr(v.name), sv) ELSE MpUInt(v.idx)) \o MpEnc(v.body, sv)

MpFail == [ok |-> FALSE, v |-> VNil, p |-> 0]

\* Decodes one value at position p of b: [ok, v, p], p the position after it.
RECURSIVE MpDec(_, _), MpDecN(_, _, _)
MpDecN(b, p, n) ==
  IF n = 0 THEN [ok |-> TRUE, vs |-> <<>>, p |-> p]
  ELSE LET h == MpDec(b, p) IN
       IF ~h.ok THEN [ok |-> FALSE, vs |-> <<>>, p |-> 0]
       ELSE LET r == MpDecN(b, h.p, n - 1) IN
            IF ~r.ok THEN r ELSE [ok |-> TRUE, vs |-> <<h.v>> \o r.vs, p |-> r.p]

MpDecStr(b, p, n) ==
  IF p + n - 1 > Len(b) THEN MpFail
  ELSE [ok |-> TRUE, v |-> VStr(SubSeq(b, p, p + n - 1)), p |-> p + n]

MpDecArr(b, p, n) ==
  LET r == MpDecN(b, p, n) IN
  IF ~r.ok THEN MpFail ELSE [ok |-> TRUE, v |-> VArr(r.vs), p |-> r.p]

MpDecMap(b, p, n) ==
  LET r == MpDecN(b, p, 2 * n) IN
  IF ~r.ok THEN MpFail
  ELSE [ok |-> TRUE, v |-> VMap([i \in 1..n |-> <<r.vs[2 * i - 1], r.vs[2 * i]>>]), p |-> r.p]

MpDec(b, p) ==
  IF p > Len(b) THEN MpFail
  ELSE LET m == b[p] IN
    CASE m < 128 -> [ok |-> TRUE, v |-> VInt(m), p |-> p + 1]
      [] m >= 128 /\ m < 144 -> MpDecMap(b, p + 1, m - 128)
      [] m >= 144 /\ m < 160 -> MpDecArr(b, p + 1, m - 144)
      [] m >= 160 /\ m < 192 -> MpDecStr(b, p + 1, m - 160)
      [] m = 192 -> [ok |-> TRUE, v |-> VNil, p |-> p + 1]
      [] m = 204 -> IF p + 1 > Len(b) THEN MpFail
                    ELSE [ok |-> TRUE, v |-> VInt(b[p + 1]), p |-> p + 2]
      [] m = 205 -> IF p + 2 > Len(b) THEN MpFail
                    ELSE [ok |-> TRUE, v |-> VInt(FromBE16(SubSeq(b, p + 1, p + 2))), p |-> p + 3]
      [] m = 206 -> IF p + 4 > Len(b) THEN MpFail
                    ELSE [ok |-> TRUE, v |-> VInt(FromBE32(SubSeq(b, p + 1, p + 4))), p |-> p + 5]
      [] m = 217 -> IF p + 1 > Len(b) THEN MpFail ELSE MpDecStr(b, p + 2, b[p + 1])
      [] m = 218 -> IF p + 2 > Len(b) THEN MpFail
                    ELSE MpDecStr(b, p + 3, FromBE16(SubSeq(b, p + 1, p + 2)))
      [] m = 220 -> IF p + 2 > Len(b) THEN MpFail
                    ELSE MpDecArr(b, p + 3, FromBE16(SubSeq(b, p + 1, p + 2)))
      [] m = 222 -> IF p + 2 > Len(b) THEN MpFail
                    ELSE MpDecMap(b, p + 3, FromBE16(SubSeq(b, p + 1, p + 2)))
      [] OTHER -> MpFail

(***************************************************************************)
(* Policies and identities (identity.rs is not among the sources; the      *)
(* shapes are those of section 3 of the specification).                    *)
(***************************************************************************)
None == [some |-> FALSE]
Some(x) == [some |-> TRUE, v |-> x]

Attribute(atype, value) == [atype |-> atype, value |-> value]

\* Policy::to_hidden: the same timestamp and types, every value removed.
to_hidden(p) ==
  [timestamp |-> p.timestamp,
   con |-> [i \in 1..Len(p.con) |-> [atype |-> p.con[i].atype, hidden_value |-> None]]]

\* Policy::derive: the canonical byte encoding of the policy, which the scheme
\* hashes to an identity.  The hash is collision-free here: the identity is the
\* encoding itself.
DeriveAttr(a) ==
  BE16(Len(a.atype)) \o a.atype \o
  (IF a.value.some THEN BE16(Len(a.value.v)) \o a.value.v ELSE <<255, 255>>)

derive(p) ==
  <<0, 0, 0, 0>> \o BE32(p.timestamp) \o Cat([i \in 1..Len(p.con) |-> DeriveAttr(p.con[i])])

(***************************************************************************)
(* The multi-recipient IBKEM (the ibe crate): a small concrete scheme.     *)
(* A master key pair is a number mk; a ciphertext for an identity carries  *)
(* the secret masked with a pad only that identity's USK yields.           *)
(***************************************************************************)
RECURSIVE WeightedSum(_, _)
WeightedSum(bs, k) ==
  IF bs = <<>> THEN 0 ELSE (Head(bs) * k + WeightedSum(Tail(bs), k + 2)) % 251

IdTag(id) == WeightedSum(id, 1)
KemPad(mk, id) == (mk * 31 + IdTag(id) * 7 + 3) % 256

extract_usk(mk, id) == [mk |-> mk, id |-> id]

\* Ciphertext::to_bytes of the ciphertext for `id` carrying secret `s`.
KemCt(mk, id, s) ==
  <<IdTag(id), (s + KemPad(mk, id)) % 256>> \o [i \in 1..(CtBytes - 2) |-> 0]

\* A faulty multi_encaps, to show what the identity list is for: every
\* ciphertext is made for the first identity.
multi_encaps_FirstOnly(mk, ids, s) ==
  [cts |-> [i \in 1..Len(ids) |-> KemCt(mk, ids[1], s)], ss |-> s]

\* multi_encaps: one shared secret, one ciphertext per identity, in order.
multi_encaps(mk, ids, s) ==
  [cts |-> [i \in 1..Len(ids) |-> KemCt(mk, ids[i], s)], ss |-> s]

\* Ciphertext::from_bytes: a CtOption, its validity bit set for the encoding
\* of a group element.
ct_from_bytes(b) == [is_some |-> Len(b) = CtBytes /\ b[1] < 251, ct |-> b]

\* multi_decaps never refuses: a USK of another identity yields another secret.
multi_decaps(usk, ct) == (ct[2] + 256 - KemPad(usk.mk, usk.id)) % 256

(***************************************************************************)
(* util.rs.                                                                *)
(***************************************************************************)
\* A faulty open_ct, to show what the validity bit is for: the value is
\* handed on whatever the bit says.
open_ct_Unchecked(x) == Some(x.ct)

\* CtOption -> Option on the validity bit.
open_ct(x) == IF x.is_some THEN Some(x.ct) ELSE None

\* SHA3-512 of the secret's bytes, as a term; a key is a slice [lo, hi) of it.
Sha3_512(bytes) == [h |-> bytes]
DigestSlice(d, lo, hi) == [h |-> d.h, lo |-> lo, hi |-> hi]
KeyLen(k) == k.hi - k.lo

\* derive_keys: split_at(KEY_SIZE) of the 64-byte digest; both halves are
\* copied into KEY_SIZE arrays, and copy_from_slice panics on another length.
derive_keys(ss, ks) ==
  LET buf == Sha3_512(<<ss>>)
      a == DigestSlice(buf, 0, ks)
      b == DigestSlice(buf, ks, DIGEST_SIZE)
  IN [panics |-> KeyLen(a) # ks \/ KeyLen(b) # ks,
      aes_key |-> a,
      mac_key |-> b]

\* rng.fill_bytes on n bytes, here spread from a seed.
RngBytes(seed, n) == [i \in 1..n |-> (seed + 29 * i) % 256]

\* generate_iv: IV_SIZE bytes of the rng.
generate_iv(seed) == RngBytes(seed, IV_SIZE)

(***************************************************************************)
(* The STREAM construction (aead::stream::EncryptorBE32 over AES-128-GCM). *)
(* A byte on the wire is a record: a plain byte, a ciphertext byte or a    *)
(* tag byte.                                                               *)
(***************************************************************************)
PlainByte(b) == [c |-> "pl", b |-> b]
Plain(bs) == [i \in 1..Len(bs) |-> PlainByte(bs[i])]
AllPlain(ws) == \A i \in 1..Len(ws) : ws[i].c = "pl"
Lower(ws) == [i \in 1..Len(ws) |-> ws[i].b]

\* A faulty STREAM nonce, to show what the counter is for: every segment is
\* sealed under counter 0.
StreamNonce_NoCounter(prefix, ctr, last) == [prefix |-> prefix, ctr |-> 0, last |-> last]

\* The nonce of segment `ctr`: the IV's prefix, the 32-bit big-endian counter,
\* the last-segment flag.
StreamNonce(prefix, ctr, last) == [prefix |-> prefix, ctr |-> ctr, last |-> last]

\* AES-GCM in place: the ciphertext of pt followed by the TAG_SIZE tag bytes.
AeadSeal(key, nonce, pt) ==
  [i \in 1..Len(pt) |-> [c |-> "ct", key |-> key, nonce |-> nonce, i |-> i, b |-> pt[i]]] \o
  [j \in 1..TAG_SIZE |-> [c |-> "tag", key |-> key, nonce |-> nonce, body |-> pt, j |-> j]]

\* Opens a chunk: Some(plaintext) iff the chunk is what AeadSeal gives for it
\* under this key and nonce.
AeadOpen(key, nonce, chunk) ==
  IF Len(chunk) < TAG_SIZE THEN None
  ELSE LET n == Len(chunk) - TAG_SIZE IN
       IF \E i \in 1..n : chunk[i].c # "ct" THEN None
       ELSE LET pt == [i \in 1..n |-> chunk[i].b] IN
            IF chunk = AeadSeal(key, nonce, pt) THEN Some(pt) ELSE None

(***************************************************************************)
(* Metadata (metadata/ser.rs).                                             *)
(***************************************************************************)
S_rs == <<114, 115>>
S_p == <<112>>
S_ct == <<99, 116>>
S_iv == <<105, 118>>
S_cs == <<99, 115>>
S_ts == <<116, 115>>
S_con == <<99, 111, 110>>
S_t == <<116>>
S_v == <<118>>

\* Metadata::new.  `s` and `seed` are what the rng yields for the shared
\* secret and the IV.
MetadataNew(mk, pols, s, seed) ==
  LET keys == SortedKeys(DOMAIN pols)
      ibe_ids == [i \in 1..Len(keys) |-> derive(pols[keys[i]])]
      enc == multi_encaps(mk, ibe_ids, s)
      recipient_info ==
        [rid \in DOMAIN pols |->
           LET i == CHOOSE j \in 1..Len(keys) : keys[j] = rid
           IN [policy |-> to_hidden(pols[rid]), ct |-> enc.cts[i]]]
  IN [meta |-> [policies |-> recipient_info,
                iv |-> generate_iv(seed),
                chunk_size |-> ChunkSize],
      ss |-> enc.ss]

HiddenPolicyValue(hp) ==
  VMap(<< <<VStr(S_ts), VInt(hp.timestamp)>>,
          <<VStr(S_con),
            VArr([i \in 1..Len(hp.con) |->
                    VMap(<< <<VStr(S_t), VStr(hp.con[i].atype)>>,
                            <<VStr(S_v), IF hp.con[i].hidden_value.some
                                         THEN VStr(hp.con[i].hidden_value.v)
                                         ELSE VNil>> >>)])>> >>)

RecipientValue(ri) ==
  VMap(<< <<VStr(S_p), HiddenPolicyValue(ri.policy)>>, <<VStr(S_ct), VBytes(ri.ct)>> >>)

RecipientsValue(pols) ==
  LET keys == SortedKeys(DOMAIN pols)
  IN VMap([i \in 1..Len(keys) |-> <<VStr(keys[i]), RecipientValue(pols[keys[i]])>>])

\* The derived Serialize of Metadata: rs, iv, cs.
MetadataValue(meta) ==
  VMap(<< <<VStr(S_rs), RecipientsValue(meta.policies)>>,
          <<VStr(S_iv), VBytes(meta.iv)>>,
          <<VStr(S_cs), VInt(meta.chunk_size)>> >>)

\* The compact binary encoding of the Metadata alone.
MetadataBytes(meta) == MpEnc(MetadataValue(meta), FALSE)

\* Metadata::msgpack_into: what it appends to the writer it is given.
Metadata_msgpack_into(meta) ==
  LET meta_vec == MetadataBytes(meta)
  IN PRELUDE \o BE16(VERSION_V2) \o BE32(Len(meta_vec)) \o meta_vec

(***************************************************************************)
(* State.                                                                  *)
(***************************************************************************)
VARIABLES
  key_size,   \* the build's KEY_SIZE
  pc,         \* seal: "init", "preamble", "loop", "ok", "io_err", "panic"
  mk,         \* seal's pk: the master key pair it belongs to
  policies,   \* seal's policies: recipient identifier -> Policy
  plain,      \* the bytes the reader r will deliver
  rpos,       \* how many of them it has delivered
  meta,       \* seal's meta
  enc,        \* seal's enc: key, nonce prefix, position (segment counter)
  buf,        \* seal's buf
  buf_tail,   \* seal's buf_tail
  w           \* everything written to the writer w, in order

sealVars == <<key_size, pc, mk, policies, plain, rpos, meta, enc, buf, buf_tail, w>>

(***************************************************************************)
(* Inputs.                                                                 *)
(***************************************************************************)
MasterKeys == {1, 2}
RecipientIds == {<<97>>, <<98>>}
PolicyA == [timestamp |-> 5, con |-> <<Attribute(<<116>>, Some(<<120>>))>>]
PolicyB == [timestamp |-> 5, con |-> <<Attribute(<<116>>, Some(<<121>>)),
                                       Attribute(<<117>>, Some(<<120, 121>>))>>]
PolicyC == [timestamp |-> 6, con |-> <<Attribute(<<116>>, Some(<<120>>))>>]
Policies == {PolicyA, PolicyB, PolicyC}

\* The policy maps seal is run on: one recipient, two recipients with
\* distinct policies, two recipients with the same policy.
SealPolicyMaps ==
  { (<<97>> :> PolicyA),
    (<<98>> :> PolicyC),
    (<<97>> :> PolicyA) @@ (<<98>> :> PolicyB),
    (<<97>> :> PolicyB) @@ (<<98>> :> PolicyB) }

\* One plaintext of every length up to three segments and a byte, and beyond.
PlainOfLen(n) == [i \in 1..n |-> (37 * i) % 256]
Plaintexts == { PlainOfLen(n) : n \in 0..(3 * ChunkSize + 2) }

\* What the rng yields: the shared secret, the seed of the IV.
Secrets == {11, 200}
IvSeeds == {3}

NoMeta == [policies |-> <<>>, iv |-> <<>>, chunk_size |-> 0]
NoEnc == [key |-> DigestSlice(Sha3_512(<<>>), 0, 0), prefix |-> <<>>, ctr |-> 0]

SealInit ==
  /\ key_size \in KeySizes
  /\ pc = "init"
  /\ mk = 0
  /\ policies = <<>>
  /\ plain = <<>>
  /\ rpos = 0
  /\ meta = NoMeta
  /\ enc = NoEnc
  /\ buf = <<>>
  /\ buf_tail = 0
  /\ w = <<>>

(***************************************************************************)
(* seal (stream/rust/sealer.rs).                                           *)
(***************************************************************************)
\* Lines 28-37: the Metadata, the keys, the stream encryptor.
SealBegin(m, P, X, s, seed) ==
  /\ pc = "init"
  /\ mk' = m
  /\ policies' = P
  /\ plain' = X
  /\ LET r == MetadataNew(m, P, s, seed)
         ks == derive_keys(r.ss, key_size)
     IN IF ks.panics
        THEN /\ pc' = "panic"
             /\ UNCHANGED <<meta, enc>>
        ELSE /\ pc' = "preamble"
             /\ meta' = r.meta
             /\ enc' = [key |-> ks.aes_key, prefix |-> Take(r.meta.iv, NONCE_SIZE), ctr |-> 0]
  /\ UNCHANGED <<key_size, rpos, buf, buf_tail, w>>

\* Lines 39-52: the four writes before the loop.
SealPreambleWrites(mt) ==
  LET meta_vec == Metadata_msgpack_into(mt)
  IN <<PRELUDE, BE16(VERSION_V2), BE32(Len(meta_vec)), meta_vec>>

\* Lines 39-57, every write succeeding.
SealPreamble ==
  /\ pc = "preamble"
  /\ w' = w \o Plain(Cat(SealPreambleWrites(meta)))
  /\ buf' = Plain([i \in 1..meta.chunk_size |-> 0])
  /\ buf_tail' = 0
  /\ pc' = "loop"
  /\ UNCHANGED <<key_size, mk, policies, plain, rpos, meta, enc>>

\* Lines 39-52, the write after the first k failing: seal returns the error.
SealPreambleFails(k) ==
  /\ pc = "preamble"
  /\ w' = w \o Plain(Cat(Take(SealPreambleWrites(meta), k)))
  /\ pc' = "io_err"
  /\ UNCHANGED <<key_size, mk, policies, plain, rpos, meta, enc, buf, buf_tail>>

\* What r.read may return into a slice of `space` bytes: 0 only at the end of
\* the input (or for an empty slice), else any positive count that fits.
ReadCounts(space) ==
  LET most == IF Len(plain) - rpos < space THEN Len(plain) - rpos ELSE space
  IN IF most = 0 THEN {0} ELSE 1..most

\* A faulty read, to show what buf_tail is for: the bytes land at the start
\* of buf whatever is already buffered.
BufAfterRead_AtStart(read) ==
  [i \in 1..Len(buf) |-> IF i <= read THEN PlainByte(plain[rpos + i]) ELSE buf[i]]

\* buf after the read of `read` bytes at buf_tail.
BufAfterRead(read) ==
  [i \in 1..Len(buf) |->
     IF i > buf_tail /\ i <= buf_tail + read
     THEN PlainByte(plain[rpos + (i - buf_tail)])
     ELSE buf[i]]

\* A faulty encryptor, to show what encrypt_last_in_place is for: every
\* segment is sealed as a non-final one.
EncryptSegment_NeverLast(e, b, last) ==
  AeadSeal(e.key, StreamNonce(e.prefix, e.ctr, 0), Lower(b))

\* encrypt_next_in_place / encrypt_last_in_place on the truncated buffer.
EncryptSegment(e, b, last) ==
  AeadSeal(e.key, StreamNonce(e.prefix, e.ctr, last), Lower(b))

\* Lines 60-73: one turn of the loop, its write (if any) succeeding.
SealLoop(read) ==
  /\ pc = "loop"
  /\ read \in ReadCounts(meta.chunk_size - buf_tail)
  /\ rpos' = rpos + read
  /\ LET b1 == BufAfterRead(read)
         tail1 == buf_tail + read
     IN IF tail1 = meta.chunk_size
        THEN LET c == EncryptSegment(enc, Take(b1, tail1), 0)
             IN /\ buf' = c
                /\ enc' = [enc EXCEPT !.ctr = @ + 1]
                /\ w' = w \o c
                /\ buf_tail' = 0
                /\ pc' = "loop"
        ELSE IF read = 0
        THEN LET c == EncryptSegment(enc, Take(b1, tail1), 1)
             IN /\ buf' = c
                /\ w' = w \o c
                /\ pc' = "ok"
                /\ UNCHANGED <<enc, buf_tail>>
        ELSE /\ buf' = b1
             /\ buf_tail' = tail1
             /\ UNCHANGED <<enc, w, pc>>
  /\ UNCHANGED <<key_size, mk, policies, plain, meta>>

\* A faulty handling of a read error, to show what the early return is for:
\* what is buffered is sealed as the final segment and written before the
\* error is returned.
SealReadFails_WritesFinal ==
  /\ pc = "loop"
  /\ w' = w \o EncryptSegment(enc, Take(buf, buf_tail), 1)
  /\ pc' = "io_err"
  /\ UNCHANGED <<key_size, mk, policies, plain, rpos, meta, enc, buf, buf_tail>>

\* Line 60: r.read returns an error.
SealReadFails ==
  /\ pc = "loop"
  /\ pc' = "io_err"
  /\ UNCHANGED <<key_size, mk, policies, plain, rpos, meta, enc, buf, buf_tail, w>>

\* Lines 60-73 with write_all failing after `part` bytes of the segment.
SealWriteFails(read, part) ==
  /\ pc = "loop"
  /\ read \in ReadCounts(meta.chunk_size - buf_tail)
  /\ LET b1 == BufAfterRead(read)
         tail1 == buf_tail + read
     IN /\ tail1 = meta.chunk_size \/ read = 0
        /\ LET c == EncryptSegment(enc, Take(b1, tail1),
                                   IF tail1 = meta.chunk_size THEN 0 ELSE 1)
           IN /\ part \in {0, Len(c) - 1}
              /\ buf' = c
              /\ w' = w \o Take(c, part)
  /\ rpos' = rpos + read
  /\ pc' = "io_err"
  /\ UNCHANGED <<key_size, mk, policies, plain, meta, enc, buf_tail>>

(***************************************************************************)
(* Typed decoding of a Metadata from the decoded MessagePack value (the    *)
(* derived Deserialize).                                                   *)
(***************************************************************************)
MapHas(v, k) == \E i \in 1..Len(v.kvs) : v.kvs[i][1] = VStr(k)
MapGet(v, k) ==
  LET i == CHOOSE j \in 1..Len(v.kvs) :
             /\ v.kvs[j][1] = VStr(k)
             /\ \A l \in 1..(j - 1) : v.kvs[l][1] # VStr(k)
  IN v.kvs[i][2]

IsU8Array(v, n) ==
  /\ v.t = "arr"
  /\ Len(v.xs) = n
  /\ \A i \in 1..n : v.xs[i].t = "int" /\ v.xs[i].n < 256
U8Array(v) == [i \in 1..Len(v.xs) |-> v.xs[i].n]

IsHiddenAttr(v) ==
  /\ v.t = "map"
  /\ MapHas(v, S_t) /\ MapGet(v, S_t).t = "str"
  /\ MapHas(v, S_v) /\ MapGet(v, S_v).t \in {"nil", "str"}
HiddenAttr(v) ==
  [atype |-> MapGet(v, S_t).s,
   hidden_value |-> IF MapGet(v, S_v).t = "nil" THEN None ELSE Some(MapGet(v, S_v).s)]

IsHiddenPolicy(v) ==
  /\ v.t = "map"
  /\ MapHas(v, S_ts) /\ MapGet(v, S_ts).t = "int"
  /\ MapHas(v, S_con) /\ MapGet(v, S_con).t = "arr"
  /\ \A i \in 1..Len(MapGet(v, S_con).xs) : IsHiddenAttr(MapGet(v, S_con).xs[i])
HiddenPolicy(v) ==
  [timestamp |-> MapGet(v, S_ts).n,
   con |-> [i \in 1..Len(MapGet(v, S_con).xs) |-> HiddenAttr(MapGet(v, S_con).xs[i])]]

\* A faulty Deserialize of RecipientHeader, to show what the array's length
\* is for: ct is a sequence of bytes of any length.
IsRecipient_AnyLength(v) ==
  /\ v.t = "map"
  /\ MapHas(v, S_p) /\ IsHiddenPolicy(MapGet(v, S_p))
  /\ MapHas(v, S_ct) /\ IsU8Array(MapGet(v, S_ct), Len(MapGet(v, S_ct).xs))

IsRecipient(v) ==
  /\ v.t = "map"
  /\ MapHas(v, S_p) /\ IsHiddenPolicy(MapGet(v, S_p))
  /\ MapHas(v, S_ct) /\ IsU8Array(MapGet(v, S_ct), CtBytes)
Recipient(v) == [policy |-> HiddenPolicy(MapGet(v, S_p)), ct |-> U8Array(MapGet(v, S_ct))]

IsRecipients(v) ==
  /\ v.t = "map"
  /\ \A i \in 1..Len(v.kvs) : v.kvs[i][1].t = "str" /\ IsRecipient(v.kvs[i][2])
Recipients(v) ==
  [rid \in { v.kvs[i][1].s : i \in 1..Len(v.kvs) } |-> Recipient(MapGet(v, rid))]

IsMetadata(v) ==
  /\ v.t = "map"
  /\ MapHas(v, S_rs) /\ IsRecipients(MapGet(v, S_rs))
  /\ MapHas(v, S_iv) /\ IsU8Array(MapGet(v, S_iv), IV_SIZE)
  /\ MapHas(v, S_cs) /\ MapGet(v, S_cs).t = "int"
MetadataOf(v) ==
  [policies |-> Recipients(MapGet(v, S_rs)),
   iv |-> U8Array(MapGet(v, S_iv)),
   chunk_size |-> MapGet(v, S_cs).n]

\* Metadata::msgpack_from on exactly these bytes.
MetadataFromBytes(b) ==
  LET d == MpDec(b, 1)
  IN IF d.ok /\ IsMetadata(d.v)
     THEN [ok |-> TRUE, meta |-> MetadataOf(d.v)]
     ELSE [ok |-> FALSE, meta |-> NoMeta]

(***************************************************************************)
(* The file handed to the unsealer, and the unsealer (specification 4.4,   *)
(* 4.5; the Unsealer's code is not among the sources).                     *)
(***************************************************************************)
VARIABLES
  file,     \* the bytes the unsealer reads
  deliv,    \* how the file was made from what seal wrote
  upc,      \* unsealer: "none", "new", "ready", "stream", "ok", or an error
  umeta,    \* the header the unsealer parsed
  uid,      \* the recipient identifier the caller chose
  uusk,     \* the USK the caller gave
  dec,      \* the stream decryptor: key, nonce prefix, position
  upos,     \* how many bytes of the file the unsealer has consumed
  out       \* the plaintext handed to the caller's writer

unsealVars == <<file, deliv, upc, umeta, uid, uusk, dec, upos, out>>

UnsealInit ==
  /\ file = <<>>
  /\ deliv = [frame |-> "none", tamper |-> "none", i |-> 0, j |-> 0]
  /\ upc = "none"
  /\ umeta = NoMeta
  /\ uid = <<>>
  /\ uusk = extract_usk(0, <<>>)
  /\ dec = NoEnc
  /\ upos = 0
  /\ out = <<>>

\* The container of 4.5 around a header encoding and a ciphertext stream.
Envelope(header_bytes, body) ==
  Plain(PRELUDE \o BE16(VERSION_V2) \o BE32(Len(header_bytes)) \o header_bytes) \o body

PREAMBLE_SIZE == Len(PRELUDE) + Len(BE16(VERSION_V2)) + Len(BE32(0))

\* The ciphertext stream seal wrote: what follows the header, whose length is
\* in the length field seal wrote.
SealedBody == Drop(w, PREAMBLE_SIZE + FromBE32(Lower(SubSeq(w, 7, 10))))

\* A stream cut in chunks of n bytes, the last one shorter (or empty).
RECURSIVE Chunks(_, _)
Chunks(b, n) ==
  IF Len(b) < n THEN <<b>> ELSE <<Take(b, n)>> \o Chunks(Drop(b, n), n)

\* The segments of seal's stream: each full segment and the final one.
SealedSegments == Chunks(SealedBody, meta.chunk_size + TAG_SIZE)

Junk == [c |-> "junk"]

\* What an adversary makes of the ciphertext stream: one byte of segment i
\* corrupted (at offset j), the stream cut after i segments, segment i
\* dropped, segments i and j exchanged.
Tampered(t) ==
  LET segs == SealedSegments
      n == Len(segs)
  IN CASE t.tamper = "none" -> SealedBody
       [] t.tamper = "corrupt" ->
            Cat([k \in 1..n |-> IF k = t.i THEN [segs[k] EXCEPT ![t.j + 1] = Junk] ELSE segs[k]])
       [] t.tamper = "truncate" -> Cat(Take(segs, t.i))
       [] t.tamper = "drop" -> Cat([k \in 1..(n - 1) |-> IF k < t.i THEN segs[k] ELSE segs[k + 1]])
       [] t.tamper = "swap" ->
            Cat([k \in 1..n |-> IF k = t.i THEN segs[t.j] ELSE IF k = t.j THEN segs[t.i] ELSE segs[k]])

Tamperings ==
  LET n == Len(SealedSegments)
  IN {[tamper |-> "none", i |-> 0, j |-> 0]}
     \cup {[tamper |-> "corrupt", i |-> q[1], j |-> q[2]] :
             q \in {r \in (1..n) \X {0, 5} : r[2] < Len(SealedSegments[r[1]])}}
     \cup {[tamper |-> "truncate", i |-> i, j |-> 0] : i \in 0..(n - 1)}
     \cup {[tamper |-> "drop", i |-> i, j |-> 0] : i \in 1..n}
     \cup {[tamper |-> "swap", i |-> q[1], j |-> q[2]] :
             q \in {r \in (1..n) \X (1..n) : r[1] < r[2]}}

\* The file reaches the unsealer exactly as seal wrote it.
DeliverWritten ==
  /\ pc = "ok"
  /\ upc = "none"
  /\ file' = w
  /\ deliv' = [frame |-> "written", tamper |-> "none", i |-> 0, j |-> 0]
  /\ upc' = "new"
  /\ UNCHANGED <<sealVars, umeta, uid, uusk, dec, upos, out>>

\* The unsealer is handed the container of 4.5 around the same header
\* encoding and the ciphertext stream seal wrote, possibly tampered with.
DeliverContainer ==
  /\ pc = "ok"
  /\ upc = "none"
  /\ \E t \in Tamperings :
       /\ file' = Envelope(MetadataBytes(meta), Tampered(t))
       /\ deliv' = [frame |-> "container", tamper |-> t.tamper, i |-> t.i, j |-> t.j]
  /\ upc' = "new"
  /\ UNCHANGED <<sealVars, umeta, uid, uusk, dec, upos, out>>

\* Unsealer::new: prelude, version, header length, header bytes.
UnsealerNew ==
  /\ upc = "new"
  /\ IF Len(file) < PREAMBLE_SIZE \/ ~AllPlain(Take(file, PREAMBLE_SIZE))
     THEN upc' = "FormatViolation" /\ UNCHANGED <<umeta, upos>>
     ELSE LET pre == Lower(Take(file, PREAMBLE_SIZE))
              version == FromBE16(SubSeq(pre, 5, 6))
              header_len == FromBE32(SubSeq(pre, 7, 10))
          IN IF SubSeq(pre, 1, 4) # PRELUDE \/ version # VERSION_V2
             THEN upc' = "FormatViolation" /\ UNCHANGED <<umeta, upos>>
             ELSE IF header_len > MAX_METADATA_SIZE
             THEN upc' = "ConstraintViolation" /\ UNCHANGED <<umeta, upos>>
             ELSE IF Len(file) < PREAMBLE_SIZE + header_len
                     \/ ~AllPlain(SubSeq(file, PREAMBLE_SIZE + 1, PREAMBLE_SIZE + header_len))
             THEN upc' = "FormatViolation" /\ UNCHANGED <<umeta, upos>>
             ELSE LET m == MetadataFromBytes(
                             Lower(SubSeq(file, PREAMBLE_SIZE + 1, PREAMBLE_SIZE + header_len)))
                  IN IF m.ok
                     THEN upc' = "ready" /\ umeta' = m.meta /\ upos' = PREAMBLE_SIZE + header_len
                     ELSE upc' = "FormatViolation" /\ UNCHANGED <<umeta, upos>>
  /\ UNCHANGED <<sealVars, file, deliv, uid, uusk, dec, out>>

\* The USKs a caller may hold: any policy's, under any master key.
Usks == { extract_usk(m, derive(p)) : m \in MasterKeys, p \in Policies }

\* Unsealer::unseal, its start: the recipient's shared secret, the AEAD key,
\* the stream decryptor.
UnsealBegin(rid, usk) ==
  /\ upc = "ready"
  /\ rid \in DOMAIN umeta.policies
  /\ uid' = rid
  /\ uusk' = usk
  /\ LET c == open_ct(ct_from_bytes(umeta.policies[rid].ct))
     IN IF ~c.some
        THEN upc' = "FormatViolation" /\ UNCHANGED dec
        ELSE LET ks == derive_keys(multi_decaps(usk, c.v), key_size)
             IN IF ks.panics
                THEN upc' = "panic" /\ UNCHANGED dec
                ELSE /\ upc' = "stream"
                     /\ dec' = [key |-> ks.aes_key, prefix |-> Take(umeta.iv, NONCE_SIZE), ctr |-> 0]
  /\ UNCHANGED <<sealVars, file, deliv, umeta, upos, out>>

\* One chunk of segment_size + tag_size bytes, or what is left of the file:
\* a full chunk is opened as a non-final segment, the last one as the final.
UnsealStep ==
  /\ upc = "stream"
  /\ LET size == umeta.chunk_size + TAG_SIZE
         left == Len(file) - upos
         full == left >= size
         chunk == SubSeq(file, upos + 1, upos + (IF full THEN size ELSE left))
         pt == AeadOpen(dec.key, StreamNonce(dec.prefix, dec.ctr, IF full THEN 0 ELSE 1), chunk)
     IN /\ upos' = upos + Len(chunk)
        /\ IF ~pt.some
           THEN upc' = "AuthenticationFailure" /\ UNCHANGED <<out, dec>>
           ELSE /\ out' = out \o pt.v
                /\ dec' = [dec EXCEPT !.ctr = @ + 1]
                /\ upc' = IF full THEN "stream" ELSE "ok"
  /\ UNCHANGED <<sealVars, file, deliv, umeta, uid, uusk>>

(***************************************************************************)
(* JSON, as serde_json writes and reads it (compact, no whitespace).  A    *)
(* text is a sequence of character codes.                                  *)
(***************************************************************************)
S_null == <<110, 117, 108, 108>>

RECURSIVE Digits(_)
Digits(n) == IF n < 10 THEN <<48 + n>> ELSE Digits(n \div 10) \o <<48 + (n % 10)>>

HexDigit(n) == IF n < 10 THEN 48 + n ELSE 87 + n

\* format_escaped_str_contents: quote, backslash and control characters.
JsonEscape(c) ==
  CASE c = 34 -> <<92, 34>>
    [] c = 92 -> <<92, 92>>
    [] c = 8 -> <<92, 98>>
    [] c = 9 -> <<92, 116>>
    [] c = 10 -> <<92, 110>>
    [] c = 12 -> <<92, 102>>
    [] c = 13 -> <<92, 114>>
    [] c < 32 /\ c \notin {8, 9, 10, 12, 13} ->
         <<92, 117, 48, 48, HexDigit(c \div 16), HexDigit(c % 16)>>
    [] OTHER -> <<c>>

JsonStr(s) == <<34>> \o Cat([i \in 1..Len(s) |-> JsonEscape(s[i])]) \o <<34>>

\* A map key: a string as it is, an integer as its decimal digits in quotes.
JsonKey(k) == IF k.t = "int" THEN <<34>> \o Digits(k.n) \o <<34>> ELSE JsonStr(k.s)

RECURSIVE JsonJoin(_)
JsonJoin(parts) ==
  IF parts = <<>> THEN <<>>
  ELSE IF Len(parts) = 1 THEN parts[1]
  ELSE parts[1] \o <<44>> \o JsonJoin(Tail(parts))

\* The Serializer of serde_json on a value: an enum variant with a body is
\* the object {"name": body}.
RECURSIVE JsonEnc(_)
JsonEnc(v) ==
  CASE v.t = "nil" -> S_null
    [] v.t = "int" -> Digits(v.n)
    [] v.t = "str" -> JsonStr(v.s)
    [] v.t = "arr" -> <<91>> \o JsonJoin([i \in 1..Len(v.xs) |-> JsonEnc(v.xs[i])]) \o <<93>>
    [] v.t = "map" ->
         <<123>> \o
         JsonJoin([i \in 1..Len(v.kvs) |->
                     JsonKey(v.kvs[i][1]) \o <<58>> \o JsonEnc(v.kvs[i][2])]) \o
         <<125>>
    [] v.t = "var" -> <<123>> \o JsonStr(v.name) \o <<58>> \o JsonEnc(v.body) \o <<125>>

JsonFail == [ok |-> FALSE, v |-> VNil, p |-> 0]
JsonFailN == [ok |-> FALSE, vs |-> <<>>, p |-> 0]
JsonFailS == [ok |-> FALSE, s |-> <<>>, p |-> 0]

\* The character at position p, 0 past the end of the text.
At(b, p) == IF p <= Len(b) THEN b[p] ELSE 0
IsDigit(c) == c >= 48 /\ c <= 57
HexVal(c) ==
  IF IsDigit(c) THEN c - 48
  ELSE IF c >= 97 /\ c <= 102 THEN c - 87
  ELSE IF c >= 65 /\ c <= 70 THEN c - 55
  ELSE -1

RECURSIVE JsonDecNum(_, _, _)
JsonDecNum(b, p, acc) ==
  IF IsDigit(At(b, p)) THEN JsonDecNum(b, p + 1, acc * 10 + (b[p] - 48))
  ELSE [ok |-> TRUE, v |-> VInt(acc), p |-> p]

JsonStrCons(c, r) == IF r.ok THEN [ok |-> TRUE, s |-> <<c>> \o r.s, p |-> r.p] ELSE r

\* The rest of a string, p the position after its opening quote.
RECURSIVE JsonDecStr(_, _)
JsonDecStr(b, p) ==
  LET c == At(b, p) IN
  IF c = 34 THEN [ok |-> TRUE, s |-> <<>>, p |-> p + 1]
  ELSE IF c < 32 THEN JsonFailS
  ELSE IF c = 92
  THEN LET e == At(b, p + 1)
           one == CASE e = 34 -> 34 [] e = 92 -> 92 [] e = 47 -> 47
                    [] e = 98 -> 8 [] e = 116 -> 9 [] e = 110 -> 10
                    [] e = 102 -> 12 [] e = 114 -> 13 [] OTHER -> -1
       IN IF e = 117
          THEN LET h == [i \in 1..4 |-> HexVal(At(b, p + 1 + i))]
                   code == ((h[1] * 16 + h[2]) * 16 + h[3]) * 16 + h[4]
               IN IF (\E i \in 1..4 : h[i] < 0) \/ code >= 128 THEN JsonFailS
                  ELSE JsonStrCons(code, JsonDecStr(b, p + 6))
          ELSE IF one < 0 THEN JsonFailS
          ELSE JsonStrCons(one, JsonDecStr(b, p + 2))
  ELSE JsonStrCons(c, JsonDecStr(b, p + 1))

\* Decodes one value at position p of the text: [ok, v, p].
RECURSIVE JsonDec(_, _), JsonDecElems(_, _), JsonDecMembers(_, _)
JsonDec(b, p) ==
  LET c == At(b, p) IN
  CASE c = 110 -> IF p + 3 <= Len(b) /\ SubSeq(b, p, p + 3) = S_null
                  THEN [ok |-> TRUE, v |-> VNil, p |-> p + 4]
                  ELSE JsonFail
    [] c = 48 -> [ok |-> TRUE, v |-> VInt(0), p |-> p + 1]
    [] c >= 49 /\ c <= 57 -> JsonDecNum(b, p, 0)
    [] c = 34 -> LET r == JsonDecStr(b, p + 1)
                 IN IF r.ok THEN [ok |-> TRUE, v |-> VStr(r.s), p |-> r.p] ELSE JsonFail
    [] c = 91 -> IF At(b, p + 1) = 93 THEN [ok |-> TRUE, v |-> VArr(<<>>), p |-> p + 2]
                 ELSE LET r == JsonDecElems(b, p + 1)
                      IN IF r.ok THEN [ok |-> TRUE, v |-> VArr(r.vs), p |-> r.p] ELSE JsonFail
    [] c = 123 -> IF At(b, p + 1) = 125 THEN [ok |-> TRUE, v |-> VMap(<<>>), p |-> p + 2]
                  ELSE LET r == JsonDecMembers(b, p + 1)
                       IN IF r.ok THEN [ok |-> TRUE, v |-> VMap(r.vs), p |-> r.p] ELSE JsonFail
    [] OTHER -> JsonFail

\* The elements of an array from position p on, to its closing bracket.
JsonDecElems(b, p) ==
  LET h == JsonDec(b, p) IN
  IF ~h.ok THEN JsonFailN
  ELSE IF At(b, h.p) = 93 THEN [ok |-> TRUE, vs |-> <<h.v>>, p |-> h.p + 1]
  ELSE IF At(b, h.p) = 44
  THEN LET r == JsonDecElems(b, h.p + 1)
       IN IF r.ok THEN [ok |-> TRUE, vs |-> <<h.v>> \o r.vs, p |-> r.p] ELSE r
  ELSE JsonFailN

\* The members of an object from position p on, to its closing brace.
JsonDecMembers(b, p) ==
  IF At(b, p) # 34 THEN JsonFailN
  ELSE LET k == JsonDecStr(b, p + 1) IN
       IF ~k.ok \/ At(b, k.p) # 58 THEN JsonFailN
       ELSE LET h == JsonDec(b, k.p + 1) IN
            IF ~h.ok THEN JsonFailN
            ELSE IF At(b, h.p) = 125
            THEN [ok |-> TRUE, vs |-> << <<VStr(k.s), h.v>> >>, p |-> h.p + 1]
            ELSE IF At(b, h.p) = 44
            THEN LET r == JsonDecMembers(b, h.p + 1)
                 IN IF r.ok
                    THEN [ok |-> TRUE, vs |-> << <<VStr(k.s), h.v>> >> \o r.vs, p |-> r.p]
                    ELSE r
            ELSE JsonFailN

(***************************************************************************)
(* Header, Algorithm, Mode, RecipientHeader (metadata.rs).                 *)
(***************************************************************************)
SYMMETRIC_CRYPTO_DEFAULT_CHUNK == 65536

S_algo == <<97, 108, 103, 111>>
S_mode == <<109, 111, 100, 101>>
S_Aes128Gcm == <<65, 101, 115, 49, 50, 56, 71, 99, 109>>
S_XSalsa20Poly1305 == <<88, 83, 97, 108, 115, 97, 50, 48, 80, 111, 108, 121, 49, 51, 48, 53>>
S_Aes128Ocb == <<65, 101, 115, 49, 50, 56, 79, 99, 98>>
S_Aegis128 == <<65, 101, 103, 105, 115, 49, 50, 56>>
S_Streaming == <<83, 116, 114, 101, 97, 109, 105, 110, 103>>
S_InMemory == <<73, 110, 77, 101, 109, 111, 114, 121>>
S_segment_size == <<115, 101, 103, 109, 101, 110, 116, 95, 115, 105, 122, 101>>
S_size_hint == <<115, 105, 122, 101, 95, 104, 105, 110, 116>>
S_size == <<115, 105, 122, 101>>

\* enum Algorithm: the variants in declaration order, with the length of iv.
AlgorithmNames == <<S_Aes128Gcm, S_XSalsa20Poly1305, S_Aes128Ocb, S_Aegis128>>
AlgorithmIvLen == <<16, 24, 12, 16>>
\* enum Mode.
ModeNames == <<S_Streaming, S_InMemory>>

Algorithm(name, iv) == [name |-> name, iv |-> iv]
Streaming(segment_size, size_hint) ==
  [name |-> S_Streaming, segment_size |-> segment_size, size_hint |-> size_hint]
InMemory(size) == [name |-> S_InMemory, size |-> size]

\* Mode::default.
Mode_default == Streaming(SYMMETRIC_CRYPTO_DEFAULT_CHUNK, <<0, None>>)

\* default_algo: Aes128Gcm with 16 bytes of the rng.
default_algo(seed) == Algorithm(S_Aes128Gcm, RngBytes(seed, 16))

\* The position of a variant in its enum, from 0.
VariantIndex(names, name) == (CHOOSE i \in 1..Len(names) : names[i] = name) - 1

Ok(x) == [ok |-> TRUE, v |-> x]
Err(e) == [ok |-> FALSE, err |-> e]

\* RecipientHeader::derive_keys.
RecipientHeader_derive_keys(rh, usk) ==
  LET c == open_ct(ct_from_bytes(rh.ct))
  IN IF ~c.some THEN Err("FormatViolation") ELSE Ok(multi_decaps(usk, c.v))

\* A faulty Header::new, to show what the order of the zip is for: the
\* ciphertexts are handed out in reverse.
Header_new_Reversed(pk, pols, s, seed) ==
  LET keys == SortedKeys(DOMAIN pols)
      ids == [i \in 1..Len(keys) |-> derive(pols[keys[i]])]
      kem == multi_encaps(pk, ids, s)
      recipient_info ==
        [rid \in DOMAIN pols |->
           LET i == CHOOSE j \in 1..Len(keys) : keys[j] = rid
           IN [policy |-> to_hidden(pols[rid]), ct |-> kem.cts[Len(keys) + 1 - i]]]
  IN [header |-> [policies |-> recipient_info,
                  algo |-> default_algo(seed),
                  mode |-> Mode_default],
      ss |-> kem.ss]

\* Header::new: the identities in the order of policies.values(), the
\* ciphertexts zipped with the policies in the same order.  `s` and `seed` are
\* what the rng yields in multi_encaps and in default_algo.
Header_new(pk, pols, s, seed) ==
  LET keys == SortedKeys(DOMAIN pols)
      ids == [i \in 1..Len(keys) |-> derive(pols[keys[i]])]
      kem == multi_encaps(pk, ids, s)
      recipient_info ==
        [rid \in DOMAIN pols |->
           LET i == CHOOSE j \in 1..Len(keys) : keys[j] = rid
           IN [policy |-> to_hidden(pols[rid]), ct |-> kem.cts[i]]]
  IN [header |-> [policies |-> recipient_info,
                  algo |-> default_algo(seed),
                  mode |-> Mode_default],
      ss |-> kem.ss]

Header_with_mode(h, mode) == [h EXCEPT !.mode = mode]
Header_with_algo(h, algo) == [h EXCEPT !.algo = algo]

\* The derived Serialize of Algorithm, Mode and Header.
AlgorithmValue(a) ==
  VVar(VariantIndex(AlgorithmNames, a.name), a.name, VMap(<< <<VStr(S_iv), VBytes(a.iv)>> >>))

ModeValue(m) ==
  IF m.name = S_Streaming
  THEN VVar(0, S_Streaming,
            VMap(<< <<VStr(S_segment_size), VInt(m.segment_size)>>,
                    <<VStr(S_size_hint),
                      VArr(<<VInt(m.size_hint[1]),
                             IF m.size_hint[2].some THEN VInt(m.size_hint[2].v) ELSE VNil>>)>> >>))
  ELSE VVar(1, S_InMemory, VMap(<< <<VStr(S_size), VInt(m.size)>> >>))

\* A faulty Serialize of Header, to show that the mode is encoded: mode is
\* left out (and read back as the default).
HeaderValue_NoMode(h) ==
  VMap(<< <<VStr(S_rs), RecipientsValue(h.policies)>>,
          <<VStr(S_algo), AlgorithmValue(h.algo)>> >>)

HeaderValue(h) ==
  VMap(<< <<VStr(S_rs), RecipientsValue(h.policies)>>,
          <<VStr(S_algo), AlgorithmValue(h.algo)>>,
          <<VStr(S_mode), ModeValue(h.mode)>> >>)

\* A faulty msgpack_into, to show what with_string_variants is for: enum
\* variants are written by index.
Header_msgpack_into_IndexVariants(h) == MpEnc(HeaderValue(h), FALSE)

\* Header::msgpack_into: with_struct_map and with_string_variants.
Header_msgpack_into(h) == MpEnc(HeaderValue(h), TRUE)

\* Header::to_json_string.
Header_to_json_string(h) == JsonEnc(HeaderValue(h))

\* The derived Deserialize of an enum: a map of one entry, the variant's name
\* (or, in MessagePack, its index) to its body.
IsEnum(v) == v.t = "map" /\ Len(v.kvs) = 1
VariantOf(v, names) ==
  LET k == v.kvs[1][1]
  IN IF k.t = "str" /\ \E i \in 1..Len(names) : names[i] = k.s
     THEN (CHOOSE i \in 1..Len(names) : names[i] = k.s)
     ELSE IF k.t = "int" /\ k.n < Len(names) THEN k.n + 1
     ELSE 0

IsAlgorithm(v) ==
  /\ IsEnum(v)
  /\ VariantOf(v, AlgorithmNames) > 0
  /\ LET body == v.kvs[1][2]
     IN /\ body.t = "map"
        /\ MapHas(body, S_iv)
        /\ IsU8Array(MapGet(body, S_iv), AlgorithmIvLen[VariantOf(v, AlgorithmNames)])
AlgorithmOf(v) ==
  Algorithm(AlgorithmNames[VariantOf(v, AlgorithmNames)], U8Array(MapGet(v.kvs[1][2], S_iv)))

IsSizeHint(v) ==
  /\ v.t = "arr"
  /\ Len(v.xs) = 2
  /\ v.xs[1].t = "int"
  /\ v.xs[2].t \in {"nil", "int"}
SizeHintOf(v) == <<v.xs[1].n, IF v.xs[2].t = "nil" THEN None ELSE Some(v.xs[2].n)>>

IsMode(v) ==
  /\ IsEnum(v)
  /\ VariantOf(v, ModeNames) > 0
  /\ LET body == v.kvs[1][2]
     IN /\ body.t = "map"
        /\ IF VariantOf(v, ModeNames) = 1
           THEN /\ MapHas(body, S_segment_size) /\ MapGet(body, S_segment_size).t = "int"
                /\ MapHas(body, S_size_hint) /\ IsSizeHint(MapGet(body, S_size_hint))
           ELSE MapHas(body, S_size) /\ MapGet(body, S_size).t = "int"
ModeOf(v) ==
  LET body == v.kvs[1][2]
  IN IF VariantOf(v, ModeNames) = 1
     THEN Streaming(MapGet(body, S_segment_size).n, SizeHintOf(MapGet(body, S_size_hint)))
     ELSE InMemory(MapGet(body, S_size).n)

\* The derived Deserialize of Header: rs and algo are required, mode falls
\* back to Mode::default (serde(default)).
IsHeader(v) ==
  /\ v.t = "map"
  /\ MapHas(v, S_rs) /\ IsRecipients(MapGet(v, S_rs))
  /\ MapHas(v, S_algo) /\ IsAlgorithm(MapGet(v, S_algo))
  /\ (MapHas(v, S_mode) => IsMode(MapGet(v, S_mode)))
HeaderOf(v) ==
  [policies |-> Recipients(MapGet(v, S_rs)),
   algo |-> AlgorithmOf(MapGet(v, S_algo)),
   mode |-> IF MapHas(v, S_mode) THEN ModeOf(MapGet(v, S_mode)) ELSE Mode_default]

\* Header::msgpack_from: one value from the reader.
Header_msgpack_from(b) ==
  LET d == MpDec(b, 1)
  IN IF d.ok /\ IsHeader(d.v) THEN Ok(HeaderOf(d.v)) ELSE Err("FormatViolation")

\* Header::from_json_string: the whole text is one value.
Header_from_json_string(s) ==
  LET d == JsonDec(s, 1)
  IN IF d.ok /\ d.p = Len(s) + 1 /\ IsHeader(d.v)
     THEN Ok(HeaderOf(d.v))
     ELSE Err("FormatViolation")

\* serde_transcode from the MessagePack Deserializer into the JSON Serializer.
transcode(b) ==
  LET d == MpDec(b, 1)
  IN IF d.ok THEN Ok(JsonEnc(d.v)) ELSE Err("transcode")

(***************************************************************************)
(* A caller of the Header API: builds a header, replaces its mode and      *)
(* algorithm, encodes it both ways, decodes and transcodes the encodings,  *)
(* and derives a recipient's shared secret from a decoded header (the      *)
(* steps of the tests of metadata.rs).                                     *)
(***************************************************************************)
VARIABLES
  hpk,        \* the master key pair of the public key given to Header::new
  hpolicies,  \* the policy map given to Header::new
  header,     \* the Header
  ss1,        \* the shared secret Header::new returned
  v1,         \* the MessagePack encoding
  s1,         \* the JSON encoding
  s2,         \* the JSON text transcoded from v1
  decoded1,   \* Header::msgpack_from(v1)
  decoded2,   \* Header::from_json_string(s1)
  derived     \* a call of derive_keys: its header, recipient, USK and result

headerVars == <<hpk, hpolicies, header, ss1, v1, s1, s2, decoded1, decoded2, derived>>

\* The policy maps Header::new is run on: those of seal, the empty map, and an
\* identifier with a character JSON escapes.
HeaderPolicyMaps == SealPolicyMaps \cup { <<>>, (<<97, 34>> :> PolicyC) }

HeaderModes == { InMemory(1024), Streaming(3, <<1, Some(300)>>) }
HeaderAlgos == { default_algo(5), Algorithm(S_Aegis128, RngBytes(7, 16)),
                 Algorithm(S_XSalsa20Poly1305, RngBytes(9, 24)) }

HeaderInit ==
  /\ hpk = 0
  /\ hpolicies = <<>>
  /\ header = None
  /\ ss1 = None
  /\ v1 = None
  /\ s1 = None
  /\ s2 = None
  /\ decoded1 = None
  /\ decoded2 = None
  /\ derived = None

HeaderNew(m, P, s, seed) ==
  /\ header = None
  /\ hpk' = m
  /\ hpolicies' = P
  /\ header' = Some(Header_new(m, P, s, seed).header)
  /\ ss1' = Some(Header_new(m, P, s, seed).ss)
  /\ UNCHANGED <<v1, s1, s2, decoded1, decoded2, derived>>

WithMode(mode) ==
  /\ header # None /\ v1 = None /\ s1 = None
  /\ header' = Some(Header_with_mode(header.v, mode))
  /\ UNCHANGED <<hpk, hpolicies, ss1, v1, s1, s2, decoded1, decoded2, derived>>

WithAlgo(algo) ==
  /\ header # None /\ v1 = None /\ s1 = None
  /\ header' = Some(Header_with_algo(header.v, algo))
  /\ UNCHANGED <<hpk, hpolicies, ss1, v1, s1, s2, decoded1, decoded2, derived>>

MsgpackInto ==
  /\ header # None /\ v1 = None
  /\ v1' = Some(Header_msgpack_into(header.v))
  /\ UNCHANGED <<hpk, hpolicies, header, ss1, s1, s2, decoded1, decoded2, derived>>

ToJsonString ==
  /\ header # None /\ s1 = None
  /\ s1' = Some(Header_to_json_string(header.v))
  /\ UNCHANGED <<hpk, hpolicies, header, ss1, v1, s2, decoded1, decoded2, derived>>

MsgpackFrom ==
  /\ v1 # None /\ decoded1 = None
  /\ decoded1' = Some(Header_msgpack_from(v1.v))
  /\ UNCHANGED <<hpk, hpolicies, header, ss1, v1, s1, s2, decoded2, derived>>

FromJsonString ==
  /\ s1 # None /\ decoded2 = None
  /\ decoded2' = Some(Header_from_json_string(s1.v))
  /\ UNCHANGED <<hpk, hpolicies, header, ss1, v1, s1, s2, decoded1, derived>>

Transcode ==
  /\ v1 # None /\ s2 = None
  /\ s2' = Some(transcode(v1.v))
  /\ UNCHANGED <<hpk, hpolicies, header, ss1, v1, s1, decoded1, decoded2, derived>>

\* decoded.policies.get(rid).unwrap().derive_keys(usk) on the header decoded
\* from MessagePack (from = 1) or from JSON (from = 2).
DeriveKeys(from, rid, usk) ==
  /\ derived = None
  /\ LET d == IF from = 1 THEN decoded1 ELSE decoded2
     IN /\ d # None
        /\ d.v.ok
        /\ rid \in DOMAIN d.v.v.policies
        /\ derived' = Some([from |-> from, rid |-> rid, usk |-> usk,
                            res |-> RecipientHeader_derive_keys(d.v.v.policies[rid], usk)])
  /\ UNCHANGED <<hpk, hpolicies, header, ss1, v1, s1, s2, decoded1, decoded2>>

(***************************************************************************)
(* A parser of header encodings that no Header encodes to: a ciphertext of *)
(* another length, an algorithm or mode variant the enums do not have.     *)
(***************************************************************************)
VARIABLES
  parsed    \* a parse: the header, what was damaged, the format, the result

parseVars == <<parsed>>

ParseInit == parsed = None

\* ct cut or zero-filled to n bytes.
Resize(ct, n) == [i \in 1..n |-> IF i <= Len(ct) THEN ct[i] ELSE 0]

\* The value a damaged header encodes: as HeaderValue, but for one
\* recipient's ct or the variant of algo or of mode.
DamagedValue(h, d) ==
  LET v == HeaderValue(h)
  IN CASE d.kind = "none" -> v
       [] d.kind = "ct" ->
            HeaderValue([h EXCEPT !.policies[d.rid].ct = Resize(@, d.n)])
       [] d.kind = "algo" ->
            [v EXCEPT !.kvs[2][2] = [@ EXCEPT !.name = d.name, !.idx = d.idx]]
       [] d.kind = "mode" ->
            [v EXCEPT !.kvs[3][2] = [@ EXCEPT !.name = d.name, !.idx = d.idx]]

\* Names and indices of no variant.
S_Aes256Gcm == <<65, 101, 115, 50, 53, 54, 71, 99, 109>>
S_Buffered == <<66, 117, 102, 102, 101, 114, 101, 100>>

Damages(h) ==
  {[kind |-> "none"]}
  \cup {[kind |-> "ct", rid |-> rid, n |-> n] :
          rid \in DOMAIN h.policies, n \in {0, CtBytes - 1, CtBytes + 1}}
  \cup {[kind |-> k, name |-> x[1], idx |-> x[2]] :
          k \in {"algo"}, x \in {<<S_Aes256Gcm, Len(AlgorithmNames)>>, <<<<>>, 200>>}}
  \cup {[kind |-> k, name |-> x[1], idx |-> x[2]] :
          k \in {"mode"}, x \in {<<S_Buffered, Len(ModeNames)>>, <<S_Aes128Gcm, 7>>}}

\* The encodings read: MessagePack with variants by name or by index, JSON.
ParseFormats == {"msgpack", "msgpack by index", "json"}

\* Header::msgpack_from or Header::from_json_string on the encoding of a
\* damaged header.
ParseDamaged(d, fmt) ==
  /\ header # None
  /\ parsed = None
  /\ LET v == DamagedValue(header.v, d)
         res == CASE fmt = "msgpack" -> Header_msgpack_from(MpEnc(v, TRUE))
                  [] fmt = "msgpack by index" -> Header_msgpack_from(MpEnc(v, FALSE))
                  [] fmt = "json" -> Header_from_json_string(JsonEnc(v))
     IN parsed' = Some([of |-> header.v, damage |-> d, fmt |-> fmt, res |-> res])

(***************************************************************************)
(* The length of the header seal writes, for policies of any size.  A      *)
(* value is given by its shape: a string by its length alone ("strn"), an  *)
(* array or a map of n entries of one encoded size by n and one entry      *)
(* ("arrn", "mapn").  MpLen is the length of what MpEnc writes for it.     *)
(***************************************************************************)
VStrN(n) == [t |-> "strn", n |-> n]
VArrN(n, x) == [t |-> "arrn", n |-> n, x |-> x]
VMapN(n, k, x) == [t |-> "mapn", n |-> n, k |-> k, x |-> x]

RECURSIVE SumLen(_)
SumLen(ns) == IF ns = <<>> THEN 0 ELSE Head(ns) + SumLen(Tail(ns))

RECURSIVE MpLen(_)
MpLen(v) ==
  CASE v.t = "nil" -> 1
    [] v.t = "int" -> Len(MpUInt(v.n))
    [] v.t = "str" -> Len(MpStrHdr(Len(v.s))) + Len(v.s)
    [] v.t = "strn" -> Len(MpStrHdr(v.n)) + v.n
    [] v.t = "arr" -> Len(MpArrHdr(Len(v.xs))) + SumLen([i \in 1..Len(v.xs) |-> MpLen(v.xs[i])])
    [] v.t = "arrn" -> Len(MpArrHdr(v.n)) + v.n * MpLen(v.x)
    [] v.t = "map" -> Len(MpMapHdr(Len(v.kvs))) +
                      SumLen([i \in 1..Len(v.kvs) |-> MpLen(v.kvs[i][1]) + MpLen(v.kvs[i][2])])
    [] v.t = "mapn" -> Len(MpMapHdr(v.n)) + v.n * (MpLen(v.k) + MpLen(v.x))

\* The shape of the Metadata of n recipients with identifiers of id_len
\* bytes, each with a policy of k attributes whose types have t_len bytes.
MetadataShape(n, id_len, k, t_len) ==
  LET attribute == VMap(<< <<VStr(S_t), VStrN(t_len)>>, <<VStr(S_v), VNil>> >>)
      policy == VMap(<< <<VStr(S_ts), VInt(PolicyA.timestamp)>>,
                        <<VStr(S_con), VArrN(k, attribute)>> >>)
      recipient == VMap(<< <<VStr(S_p), policy>>,
                           <<VStr(S_ct), VBytes(KemCt(1, <<97>>, 200))>> >>)
  IN VMap(<< <<VStr(S_rs), VMapN(n, VStrN(id_len), recipient)>>,
             <<VStr(S_iv), VBytes(generate_iv(3))>>,
             <<VStr(S_cs), VInt(SYMMETRIC_CRYPTO_DEFAULT_CHUNK)>> >>)

VARIABLES
  zpc,      \* "init", "written", then what the unsealer makes of the length
  zshape,   \* the sizes of seal's policies
  zlen      \* the header-length field seal wrote

sizeVars == <<zpc, zshape, zlen>>

RecipientCounts == {1, 2, 16, 500}
IdLens == {1, 32, 256, 65536}
AttributeCounts == {1, 2}
TypeLens == {1, 32, 256, 65536, 1048576}

SizeInit ==
  /\ zpc = "init"
  /\ zshape = <<0, 0, 0, 0>>
  /\ zlen = 0

\* sealer.rs 42-52 on policies of these sizes: meta_vec is everything
\* Metadata::msgpack_into wrote, and its length goes into the length field
\* (u32::try_from rejects 2^32 and more, lengths the model does not reach).
SealHeaderLength(n, id_len, k, t_len) ==
  /\ zpc = "init"
  /\ zshape' = <<n, id_len, k, t_len>>
  /\ zlen' = PREAMBLE_SIZE + MpLen(MetadataShape(n, id_len, k, t_len))
  /\ zpc' = "written"

\* The unsealer's check of the header length it read (4.4).
UnsealHeaderLength ==
  /\ zpc = "written"
  /\ zpc' = IF zlen > MAX_METADATA_SIZE THEN "ConstraintViolation" ELSE "accepted"
  /\ UNCHANGED <<zshape, zlen>>

(***************************************************************************)
(* artifacts.rs: public keys and user secret keys as base64 strings.       *)
(* A text is a sequence of character codes.  Base64 is base64ct's padded   *)
(* standard alphabet; an artifact's canonical bytes are the scheme's.      *)
(***************************************************************************)
\* The scheme's PK_BYTES and USK_BYTES, small here.
PK_BYTES == 4
USK_BYTES == 5

Zeros(n) == [i \in 1..n |-> 0]

\* Pk::to_bytes and Pk::from_bytes: a CtOption whose validity bit is set for
\* the encoding of a group element.
Pk_to_bytes(pk) == <<pk, (pk * 3 + 1) % 256>> \o Zeros(PK_BYTES - 2)
Pk_from_bytes(b) ==
  [is_some |-> b[2] = (b[1] * 3 + 1) % 256 /\ Drop(b, 2) = Zeros(PK_BYTES - 2),
   ct |-> b[1]]

\* Usk::to_bytes and Usk::from_bytes.  The bytes carry what decapsulation
\* uses of the key: the master key and the tag of the identity.
Usk_to_bytes(usk) ==
  <<usk.mk, IdTag(usk.id), (usk.mk + 2 * IdTag(usk.id) + 5) % 256>> \o Zeros(USK_BYTES - 3)
Usk_from_bytes(b) ==
  [is_some |-> /\ b[2] < 251
               /\ b[3] = (b[1] + 2 * b[2] + 5) % 256
               /\ Drop(b, 3) = Zeros(USK_BYTES - 3),
   ct |-> [mk |-> b[1], id |-> <<b[2]>>]]

\* b64len: the length of the padded base64 of raw_len bytes.
b64len(raw_len) == (((raw_len - 1) \div 3) + 1) * 4

PAD == 61

\* The character of a 6-bit value: A-Z, a-z, 0-9, +, /.
B64Char(v) ==
  IF v < 26 THEN 65 + v
  ELSE IF v < 52 THEN 71 + v
  ELSE IF v < 62 THEN v - 4
  ELSE IF v = 62 THEN 43 ELSE 47

\* decode_6bits: the value of a character, -1 for one outside the alphabet.
B64Val(c) ==
  IF c \in 65..90 THEN c - 65
  ELSE IF c \in 97..122 THEN c - 71
  ELSE IF c \in 48..57 THEN c + 4
  ELSE IF c = 43 THEN 62
  ELSE IF c = 47 THEN 63 ELSE -1

\* encode_3bytes.
Encode3(b) ==
  <<B64Char(b[1] \div 4),
    B64Char((b[1] % 4) * 16 + (b[2] \div 16)),
    B64Char((b[2] % 16) * 4 + (b[3] \div 64)),
    B64Char(b[3] % 64)>>

\* Base64::encode into a buffer of cap characters: whole blocks of three
\* bytes, then the rest filled up with zero bits and padded with '='.
RECURSIVE EncodeBlocks(_)
EncodeBlocks(src) ==
  IF Len(src) = 0 THEN <<>>
  ELSE IF Len(src) >= 3 THEN Encode3(src) \o EncodeBlocks(Drop(src, 3))
  ELSE Take(Encode3(src \o Zeros(3 - Len(src))), Len(src) + 1)
         \o [i \in 1..(3 - Len(src)) |-> PAD]

\* A faulty encoder, to show what the padding is for: the unpadded alphabet.
Base64_encode_Unpadded(src, cap) ==
  IF ((Len(src) + 2) \div 3) * 4 > cap
  THEN Err("InvalidLength")
  ELSE Ok(SelectSeq(EncodeBlocks(src), LAMBDA c : c # PAD))

Base64_encode(src, cap) ==
  IF ((Len(src) + 2) \div 3) * 4 > cap
  THEN Err("InvalidLength")
  ELSE Ok(EncodeBlocks(src))

\* decode_3bytes: three bytes of four characters, and whether one of the
\* characters is outside the alphabet.
Decode3(s) ==
  LET v == [i \in 1..4 |-> B64Val(s[i])]
      u == [i \in 1..4 |-> IF v[i] < 0 THEN 0 ELSE v[i]]
  IN [bytes |-> <<u[1] * 4 + (u[2] \div 16),
                  (u[2] % 16) * 16 + (u[3] \div 4),
                  (u[3] % 4) * 64 + u[4]>>,
      err |-> \E i \in 1..4 : v[i] < 0]

RECURSIVE DecodeBlocks(_)
DecodeBlocks(s) ==
  IF Len(s) = 0 THEN [bytes |-> <<>>, err |-> FALSE]
  ELSE IF Len(s) >= 4
  THEN LET d == Decode3(s)
           r == DecodeBlocks(Drop(s, 4))
       IN [bytes |-> d.bytes \o r.bytes, err |-> d.err \/ r.err]
  ELSE LET d == Decode3(s \o [i \in 1..(4 - Len(s)) |-> 65])
       IN [bytes |-> d.bytes, err |-> d.err \/ Len(s) < 2]

\* validate_last_block: the last block of the text is the encoding of the
\* last block of the bytes (no stray bits before the padding).
LastBlockStart(n, block_size) ==
  (((IF n = 0 THEN 0 ELSE n - 1)) \div block_size) * block_size

validate_last_block(encoded, decoded) ==
  \/ Len(encoded) = 0 /\ Len(decoded) = 0
  \/ EncodeBlocks(Drop(decoded, LastBlockStart(Len(decoded), 3)))
       = Drop(encoded, LastBlockStart(Len(encoded), 4))

\* Base64::decode into a buffer of cap bytes: decode_padding, the length
\* check, the blocks, the check of the last block.
Base64_decode(src, cap) ==
  LET n == Len(src)
      is_pad(c) == IF c = PAD THEN 1 ELSE 0
      unpadded_len == IF n >= 2 THEN n - is_pad(src[n - 1]) - is_pad(src[n]) ELSE n
      padding_len == n - unpadded_len
      pad_err == CASE padding_len = 1 -> src[n] # PAD
                   [] padding_len = 2 -> ~(src[n - 1] = PAD /\ src[n] = PAD)
                   [] OTHER -> FALSE
      dlen == (unpadded_len * 3) \div 4
      d == DecodeBlocks(Take(src, unpadded_len))
      dst == Take(d.bytes, dlen)
  IN IF n % 4 # 0 THEN Err("InvalidEncoding")
     ELSE IF dlen > cap THEN Err("InvalidLength")
     ELSE IF pad_err \/ d.err THEN Err("InvalidEncoding")
     ELSE IF ~validate_last_block(src, dst) THEN Err("InvalidEncoding")
     ELSE Ok(dst)

\* impl Serialize for PublicKey / UserSecretKey: the string handed to the
\* serializer.
Artifact_serialize(bytes, n) ==
  LET encoded == Base64_encode(bytes, b64len(n))
  IN IF ~encoded.ok THEN Err("base64ct serialization error") ELSE Ok(encoded.v)

PublicKey_serialize(pk) == Artifact_serialize(Pk_to_bytes(pk), PK_BYTES)
UserSecretKey_serialize(usk) == Artifact_serialize(Usk_to_bytes(usk), USK_BYTES)

\* dec_buf after Base64::decode: zeroes, with the decoded bytes in front.
DecBuf(b64, n) == b64.v \o Zeros(n - Len(b64.v))

\* impl Deserialize for PublicKey / UserSecretKey, on the string s the
\* deserializer yields.
PublicKey_deserialize(s) ==
  LET b64 == Base64_decode(s, PK_BYTES)
  IN IF ~b64.ok THEN Err("base64ct decoding error")
     ELSE LET pk == open_ct(Pk_from_bytes(DecBuf(b64, PK_BYTES)))
          IN IF ~pk.some THEN Err("not a public key") ELSE Ok(pk.v)

UserSecretKey_deserialize(s) ==
  LET b64 == Base64_decode(s, USK_BYTES)
  IN IF ~b64.ok THEN Err("base64ct decoding error")
     ELSE LET usk == open_ct(Usk_from_bytes(DecBuf(b64, USK_BYTES)))
          IN IF ~usk.some THEN Err("not a user secret key") ELSE Ok(usk.v)

(***************************************************************************)
(* A party that encodes an artifact, a channel that may hand on another    *)
(* text, and a party that decodes what it is handed.                       *)
(***************************************************************************)
VARIABLES
  apc,       \* "idle", "encoded", "altered", "decoded"
  akind,     \* "pk" or "usk"
  asrc,      \* the artifact that was encoded
  atext,     \* the text on its way
  adec_buf,  \* dec_buf of the decoder, Some after a successful Base64::decode
  ares       \* what deserialize returned

artifactVars == <<apc, akind, asrc, atext, adec_buf, ares>>

ArtifactInit ==
  /\ apc = "idle"
  /\ akind = "pk"
  /\ asrc = None
  /\ atext = <<>>
  /\ adec_buf = None
  /\ ares = None

\* serde_json::to_string of a PublicKey or a UserSecretKey.
ArtifactEncode(kind, x) ==
  /\ apc = "idle"
  /\ LET r == IF kind = "pk" THEN PublicKey_serialize(x) ELSE UserSecretKey_serialize(x)
     IN /\ r.ok
        /\ atext' = r.v
  /\ akind' = kind
  /\ asrc' = Some(x)
  /\ apc' = "encoded"
  /\ UNCHANGED <<adec_buf, ares>>

\* The characters a text may be altered with: padding, a character outside
\* the alphabet, characters of the alphabet.
AlterChars == {61, 33, 65, 66, 103}
AlterSuffixes == { <<61>>, <<65>>, <<65, 65, 65, 65>>, <<61, 61, 61, 61>>, <<65, 65, 61, 61>> }

\* The texts that may arrive in place of the one that was encoded: one
\* character replaced, the text cut short, or characters appended.
AlteredTexts(t) ==
  { [t EXCEPT ![i] = c] : i \in 1..Len(t), c \in AlterChars }
    \cup { Take(t, k) : k \in 0..Len(t) }
    \cup { t \o suffix : suffix \in AlterSuffixes }

\* Another text arrives.
ArtifactAlter(t) ==
  /\ apc = "encoded"
  /\ t # atext
  /\ atext' = t
  /\ apc' = "altered"
  /\ UNCHANGED <<akind, asrc, adec_buf, ares>>

\* serde_json::from_str into a PublicKey or a UserSecretKey.
ArtifactDecode ==
  /\ apc \in {"encoded", "altered"}
  /\ LET n == IF akind = "pk" THEN PK_BYTES ELSE USK_BYTES
         b64 == Base64_decode(atext, n)
     IN adec_buf' = IF b64.ok THEN Some(DecBuf(b64, n)) ELSE None
  /\ ares' = Some(IF akind = "pk" THEN PublicKey_deserialize(atext)
                                  ELSE UserSecretKey_deserialize(atext))
  /\ apc' = IF apc = "encoded" THEN "decoded" ELSE "decoded altered"
  /\ UNCHANGED <<akind, asrc, atext>>

(***************************************************************************)
(* The PKG (pg-pkg): its master key pair, and the handler of               *)
(* POST /v2/{irma|request}/start (handlers/start.rs).                      *)
(***************************************************************************)
MAX_VALIDITY == 86400
MAX_VALIDITY_SIGN == 8640000
DEFAULT_VALIDITY == 300

VARIABLES
  gmk,      \* the master key pair of the running PKG, 0 before it runs
  sreq,     \* start: the request it handled
  ser,      \* start: the ExtendedIrmaRequest sent to the IRMA server
  ocalls,   \* start: how many sessions it has requested of the IRMA server
  sresp,    \* start: its response
  hresp,    \* parameters: the response, headers and body
  hparams,  \* parameters: what the client read from the body
  ksess,    \* key: the session the request is authenticated with
  kresp,    \* key: the KeyResponse of the handler
  kwire,    \* key: its body
  kclient,  \* key: what the client read from the body
  kem,      \* the sender's encapsulation under the published key
  kss       \* the shared secret the client decapsulated with the key it got

pkgVars == <<gmk, sreq, ser, ocalls, sresp, hresp, hparams, ksess, kresp, kwire, kclient, kem, kss>>

PkgInit ==
  /\ gmk = 0
  /\ sreq = None
  /\ ser = None
  /\ ocalls = 0
  /\ sresp = None
  /\ hresp = None
  /\ hparams = None
  /\ ksess = None
  /\ kresp = None
  /\ kwire = None
  /\ kclient = None
  /\ kem = None
  /\ kss = None

\* exec / default_setup: the PKG runs with a master key pair.
PkgSetup(m) ==
  /\ gmk = 0
  /\ gmk' = m
  /\ UNCHANGED <<sreq, ser, ocalls, sresp, hresp, hparams, ksess, kresp, kwire, kclient, kem, kss>>

\* A KeyRequest / IrmaAuthRequest.
KeyRequest(con, validity) == [con |-> con, validity |-> validity]

\* A faulty disclosure request, to show what the nesting is for: the
\* attributes are the alternatives of one disjunction.
DisclosureRequest_OneDiscon(con) ==
  << [i \in 1..Len(con) |->
        << [attr_type |-> con[i].atype, value |-> con[i].value, not_null |-> TRUE] >>] >>

\* The disclosure request: one discon per attribute, a single compound
\* attribute request that must not be null.
DisclosureRequest(con) ==
  [i \in 1..Len(con) |->
     << << [attr_type |-> con[i].atype, value |-> con[i].value, not_null |-> TRUE] >> >>]

\* A faulty match on the validity, to show what isSigning is for: one cap
\* for both kinds of key.
StartValidity_OneCap(validity, isSigning) ==
  IF validity.some /\ validity.v > MAX_VALIDITY THEN Err("ValidityError")
  ELSE IF validity.some THEN Ok(validity.v)
  ELSE Ok(DEFAULT_VALIDITY)

\* start: the match on kr.validity.
StartValidity(validity, isSigning) ==
  IF validity.some /\ ((~isSigning /\ validity.v > MAX_VALIDITY)
                        \/ (isSigning /\ validity.v > MAX_VALIDITY_SIGN))
  THEN Err("ValidityError")
  ELSE IF validity.some THEN Ok(validity.v)
  ELSE Ok(DEFAULT_VALIDITY)

SessionData == [session_ptr |-> "qr", token |-> "token"]

\* A faulty order, to show what the early return is for: the session is
\* requested before the validity is looked at.
StartRequests_BeforeCheck(validity, irma) == IF irma = "url" THEN 0 ELSE 1

\* Lines 41-61: how many times request_extended is called on the path taken,
\* validity being the result of the match.  The ? of the match and of the
\* client's construction return before the call.
StartRequests(validity, irma) ==
  IF ~validity.ok THEN 0 ELSE IF irma = "url" THEN 0 ELSE 1

\* start.  irma is what becomes of the IRMA server: "url" (no client can be
\* built for its URL), "down" (the request fails) or "ok".
Start(kr, isSigning, irma) ==
  /\ gmk # 0
  /\ sresp = None
  /\ hresp = None /\ ksess = None   \* the handlers share nothing: one route at a time
  /\ sreq' = Some([kr |-> kr, isSigning |-> isSigning, irma |-> irma])
  /\ LET dr == DisclosureRequest(kr.con)
         validity == StartValidity(kr.validity, isSigning)
     IN /\ ocalls' = ocalls + StartRequests(validity, irma)
        /\ IF ~validity.ok
           THEN sresp' = Some(Err("ValidityError")) /\ ser' = None
           ELSE IF irma = "url"
           THEN sresp' = Some(Err("Unexpected")) /\ ser' = None
           ELSE /\ ser' = Some([timeout |-> None,
                                callback_url |-> None,
                                validity |-> Some(validity.v),
                                request |-> dr])
                /\ sresp' = Some(IF irma = "down" THEN Err("Unexpected") ELSE Ok(SessionData))
  /\ UNCHANGED <<gmk, hresp, hparams, ksess, kresp, kwire, kclient, kem, kss>>

\* The requests start is given.
Validities ==
  {None} \cup { Some(v) : v \in {0, 299, 300, 301, 86399, 86400, 86401, 1000000,
                                 8639999, 8640000, 8640001, 2000000000} }
StartCons == { PolicyA.con, PolicyB.con,
               <<Attribute(<<116>>, None)>> }
IrmaOutcomes == {"ok", "down", "url"}

(***************************************************************************)
(* GET /v2/parameters and /v2/sign/parameters: the precomputed             *)
(* ParametersData (server.rs), the Parameters it is made of (api.rs), the  *)
(* client's reading of the body (client.rs).                               *)
(***************************************************************************)
S_formatVersion == <<102, 111, 114, 109, 97, 116, 86, 101, 114, 115, 105, 111, 110>>
S_publicKey == <<112, 117, 98, 108, 105, 99, 75, 101, 121>>
S_format_version == <<102, 111, 114, 109, 97, 116, 95, 118, 101, 114, 115, 105, 111, 110>>

\* exec / default_setup: the Parameters of the PKG.
Parameters(pk) == [format_version |-> 0, public_key |-> pk]

\* A faulty Serialize of Parameters, to show what rename_all is for: the
\* fields keep their names.
ParametersValue_SnakeCase(p) ==
  VMap(<< <<VStr(S_format_version), VInt(p.format_version)>>,
          <<VStr(S_publicKey), VStr(PublicKey_serialize(p.public_key).v)>> >>)

\* The derived Serialize of Parameters (camelCase).
ParametersValue(p) ==
  VMap(<< <<VStr(S_formatVersion), VInt(p.format_version)>>,
          <<VStr(S_publicKey), VStr(PublicKey_serialize(p.public_key).v)>> >>)

\* The public key of the signing scheme, as the PKG serves it.
SigningParametersValue(pk) == VStr(EncodeBlocks(<<(pk + 100) % 256>>))

\* ParametersData::new: the pre-serialized JSON, Last-Modified of the key
\* file, a strong ETag of the key file's bytes.
ParametersData_new(value, key_bytes, modified) ==
  [pp |-> JsonEnc(value),
   last_modified |-> modified,
   etag |-> [strong |-> TRUE, tag |-> key_bytes]]

\* handlers::parameters: the body is pp; ETag, Last-Modified and
\* Cache-Control are set from the ParametersData.
ParametersResponse(pd) ==
  [status |-> 200,
   headers |-> [x \in {"etag", "last-modified", "cache-control"} |->
                  CASE x = "etag" -> pd.etag
                    [] x = "last-modified" -> pd.last_modified
                    [] OTHER -> "public"],
   body |-> pd.pp]

\* The derived Deserialize of Parameters: both fields are required, the
\* version a u8, the key a string PublicKey::deserialize accepts.
IsParameters(v) ==
  /\ v.t = "map"
  /\ MapHas(v, S_formatVersion)
  /\ MapGet(v, S_formatVersion).t = "int"
  /\ MapGet(v, S_formatVersion).n < 256
  /\ MapHas(v, S_publicKey)
  /\ MapGet(v, S_publicKey).t = "str"
  /\ PublicKey_deserialize(MapGet(v, S_publicKey).s).ok

\* Client::parameters: error_for_status, then the body as JSON.
Client_parameters(resp) ==
  IF resp.status # 200 THEN Err("Reqwest")
  ELSE LET r == JsonDec(resp.body, 1)
       IN IF r.ok /\ r.p = Len(resp.body) + 1 /\ IsParameters(r.v)
          THEN Ok([format_version |-> MapGet(r.v, S_formatVersion).n,
                   public_key |-> PublicKey_deserialize(MapGet(r.v, S_publicKey).s).v])
          ELSE Err("Reqwest")

\* GET /v2/parameters or /v2/sign/parameters, and the client's reading of
\* the former.
GetParameters(route, modified) ==
  /\ gmk # 0
  /\ sresp = None
  /\ hresp = None
  /\ LET pd == IF route = "parameters"
               THEN ParametersData_new(ParametersValue(Parameters(gmk)), Pk_to_bytes(gmk), modified)
               ELSE ParametersData_new(SigningParametersValue(gmk), <<(gmk + 100) % 256>>, modified)
     IN /\ hresp' = Some([route |-> route, resp |-> ParametersResponse(pd)])
        /\ hparams' = IF route = "parameters"
                      THEN Some(Client_parameters(ParametersResponse(pd)))
                      ELSE None
  /\ UNCHANGED <<gmk, sreq, ser, ocalls, sresp, ksess, kresp, kwire, kclient, kem, kss>>

(***************************************************************************)
(* GET /v2/{irma|request}/key/{timestamp}: KeyResponse (api.rs), the       *)
(* handler behind the authentication middleware (neither is among the      *)
(* sources: section 4.6 of the specification), the client's reading of     *)
(* the body (client.rs), and the use of the key (server.rs, test_round_kem *)
(* and test_round_kem_wrong_policy).                                       *)
(***************************************************************************)
S_status == <<115, 116, 97, 116, 117, 115>>
S_proofStatus == <<112, 114, 111, 111, 102, 83, 116, 97, 116, 117, 115>>
S_key == <<107, 101, 121>>
S_INITIALIZED == <<73, 78, 73, 84, 73, 65, 76, 73, 90, 69, 68>>
S_PAIRING == <<80, 65, 73, 82, 73, 78, 71>>
S_CONNECTED == <<67, 79, 78, 78, 69, 67, 84, 69, 68>>
S_CANCELLED == <<67, 65, 78, 67, 69, 76, 76, 69, 68>>
S_DONE == <<68, 79, 78, 69>>
S_TIMEOUT == <<84, 73, 77, 69, 79, 85, 84>>
S_VALID == <<86, 65, 76, 73, 68>>
S_INVALID == <<73, 78, 86, 65, 76, 73, 68>>
S_INVALID_TIMESTAMP == <<73, 78, 86, 65, 76, 73, 68, 95, 84, 73, 77, 69, 83, 84, 65, 77, 80>>
S_UNMATCHED_REQUEST == <<85, 78, 77, 65, 84, 67, 72, 69, 68, 95, 82, 69, 81, 85, 69, 83, 84>>
S_MISSING_ATTRIBUTES == <<77, 73, 83, 83, 73, 78, 71, 95, 65, 84, 84, 82, 73, 66, 85, 84, 69, 83>>
S_EXPIRED == <<69, 88, 80, 73, 82, 69, 68>>

\* irma::SessionStatus and irma::ProofStatus, by the names they are
\* serialized with.
SessionStatuses == {S_INITIALIZED, S_PAIRING, S_CONNECTED, S_CANCELLED, S_DONE, S_TIMEOUT}
ProofStatuses ==
  {S_VALID, S_INVALID, S_INVALID_TIMESTAMP, S_UNMATCHED_REQUEST, S_MISSING_ATTRIBUTES, S_EXPIRED}

KeyResponse(status, proof_status, key) ==
  [status |-> status, proof_status |-> proof_status, key |-> key]

\* A faulty Serialize of KeyResponse, to show that the key is written: the
\* key is always skipped.
KeyResponseValue_NoKey(r) ==
  VMap(<< <<VStr(S_status), VStr(r.status)>> >>
       \o (IF r.proof_status.some
           THEN << <<VStr(S_proofStatus), VStr(r.proof_status.v)>> >> ELSE <<>>))

\* The derived Serialize of KeyResponse (camelCase): proof_status and key
\* are skipped when they are None.
KeyResponseValue(r) ==
  VMap(<< <<VStr(S_status), VStr(r.status)>> >>
       \o (IF r.proof_status.some
           THEN << <<VStr(S_proofStatus), VStr(r.proof_status.v)>> >> ELSE <<>>)
       \o (IF r.key.some
           THEN << <<VStr(S_key), VStr(UserSecretKey_serialize(r.key.v).v)>> >> ELSE <<>>))

\* The derived Deserialize of KeyResponse: status is required; an Option
\* that is missing or null is None.
IsOptional(v, k) == MapHas(v, k) /\ MapGet(v, k).t # "nil"
IsKeyResponse(v) ==
  /\ v.t = "map"
  /\ MapHas(v, S_status)
  /\ MapGet(v, S_status).t = "str"
  /\ MapGet(v, S_status).s \in SessionStatuses
  /\ IsOptional(v, S_proofStatus) =>
       MapGet(v, S_proofStatus).t = "str" /\ MapGet(v, S_proofStatus).s \in ProofStatuses
  /\ IsOptional(v, S_key) =>
       MapGet(v, S_key).t = "str" /\ UserSecretKey_deserialize(MapGet(v, S_key).s).ok
KeyResponseOf(v) ==
  KeyResponse(MapGet(v, S_status).s,
              IF IsOptional(v, S_proofStatus) THEN Some(MapGet(v, S_proofStatus).s) ELSE None,
              IF IsOptional(v, S_key)
              THEN Some(UserSecretKey_deserialize(MapGet(v, S_key).s).v) ELSE None)

\* Client::request_decryption_key: the body as JSON.
Client_request_decryption_key(body) ==
  LET r == JsonDec(body, 1)
  IN IF r.ok /\ r.p = Len(body) + 1 /\ IsKeyResponse(r.v)
     THEN Ok(KeyResponseOf(r.v))
     ELSE Err("Reqwest")

\* The disclosed attributes match the request: the same types in the same
\* order, every attribute disclosed, and the value the request asks for.
DisclosedMatch(disclosed, con) ==
  /\ Len(disclosed) = Len(con)
  /\ \A i \in 1..Len(con) :
       /\ disclosed[i].atype = con[i].atype
       /\ disclosed[i].value.some
       /\ con[i].value.some => disclosed[i].value = con[i].value

\* The handler of the key route, behind the middleware that checks the
\* session result of the token: the key is derived from the attested policy
\* and the timestamp of the path.
request_key(sk, sess, timestamp) ==
  KeyResponse(sess.status, sess.proof_status,
              IF /\ sess.status = S_DONE
                 /\ sess.proof_status = Some(S_VALID)
                 /\ DisclosedMatch(sess.disclosed, sess.con)
              THEN Some(extract_usk(sk, derive([timestamp |-> timestamp, con |-> sess.disclosed])))
              ELSE None)

\* A faulty encaps, to show what the identity is for: the ciphertext is
\* made for the empty identity.
encaps_NoIdentity(pk, id, s) == [ct |-> KemCt(pk, <<>>, s), ss |-> s]

\* IBKEM::encaps and IBKEM::decaps of the scheme.
encaps(pk, id, s) == [ct |-> KemCt(pk, id, s), ss |-> s]
decaps(usk, ct) == multi_decaps(usk, ct)

\* A sender encapsulates for the identity of a policy under the public key
\* the parameters route published.
Encaps(pol, s) ==
  /\ sresp = None
  /\ kem = None
  /\ hparams # None
  /\ hparams.v.ok
  /\ LET c == encaps(hparams.v.v.public_key, derive(pol), s)
     IN kem' = Some([pol |-> pol, ct |-> c.ct, ss |-> c.ss])
  /\ UNCHANGED <<gmk, sreq, ser, ocalls, sresp, hresp, hparams, ksess, kresp, kwire, kclient, kss>>

\* The key route answers a request authenticated with a session, and the
\* client reads the answer.
GetKey(sess, timestamp) ==
  /\ gmk # 0
  /\ sresp = None
  /\ ksess = None
  /\ ksess' = Some([sess |-> sess, timestamp |-> timestamp])
  /\ LET r == request_key(gmk, sess, timestamp)
         body == JsonEnc(KeyResponseValue(r))
     IN /\ kresp' = Some(r)
        /\ kwire' = Some(body)
        /\ kclient' = Some(Client_request_decryption_key(body))
  /\ UNCHANGED <<gmk, sreq, ser, ocalls, sresp, hresp, hparams, kem, kss>>

\* The client decapsulates the sender's ciphertext with the key it got.
Decaps ==
  /\ kss = None
  /\ kem # None
  /\ kclient # None
  /\ kclient.v.ok
  /\ kclient.v.v.key.some
  /\ kss' = Some(decaps(kclient.v.v.key.v, kem.v.ct))
  /\ UNCHANGED <<gmk, sreq, ser, ocalls, sresp, hresp, hparams, ksess, kresp, kwire, kclient, kem>>

\* The sessions and timestamps the key route is asked with.
PolicyA_OtherValue == [timestamp |-> 5, con |-> <<Attribute(<<116>>, Some(<<122>>))>>]
DisclosedCons == { PolicyA.con, PolicyA_OtherValue.con, PolicyB.con, <<>> }
Sessions ==
  { [status |-> st, proof_status |-> ps, disclosed |-> d, con |-> c] :
      st \in SessionStatuses, ps \in {None, Some(S_VALID), Some(S_INVALID), Some(S_EXPIRED)},
      d \in DisclosedCons, c \in StartCons }
Timestamps == {5, 6}

(***************************************************************************)
(* The command-line client waiting for the key (irmaseal-cli/src/          *)
(* decrypt.rs, wait_on_session and its caller).                            *)
(***************************************************************************)
\* for _ in 0..120, and the Duration of delay_for in milliseconds.
POLL_ATTEMPTS == 120
POLL_DELAY_MS == 500

\* KeyStatus of the key route this client reads; Initialized is the pending
\* session of 4.6.
K_Initialized == "Initialized"
K_Connected == "Connected"
K_Cancelled == "Cancelled"
K_DoneInvalid == "DoneInvalid"
K_DoneValid == "DoneValid"
K_Timeout == "Timeout"
KeyStatuses ==
  {K_Initialized, K_Connected, K_Cancelled, K_DoneInvalid, K_DoneValid, K_Timeout}

VARIABLES
  session,  \* the status of the session at the PKG
  wpc,      \* wait_on_session: "request", "delay", "some", "none"
  wi,       \* how many requests it has issued
  wms,      \* the milliseconds it has spent in delay_for
  wlast,    \* what the last client.result gave: Ok of a status, or Err
  wmain     \* the caller: "waiting", "key" or "panic"

pollVars == <<session, wpc, wi, wms, wlast, wmain>>

PollInit ==
  /\ session = K_Initialized
  /\ wpc = "request"
  /\ wi = 0
  /\ wms = 0
  /\ wlast = None
  /\ wmain = "waiting"

\* The session moves on at the PKG: the user connects, discloses (a valid or
\* an invalid proof) or cancels, or the session times out.
SessionStep(s) ==
  /\ \/ session = K_Initialized /\ s \in {K_Connected, K_Cancelled, K_Timeout}
     \/ session = K_Connected /\ s \in {K_DoneValid, K_DoneInvalid, K_Cancelled, K_Timeout}
  /\ session' = s
  /\ UNCHANGED <<wpc, wi, wms, wlast, wmain>>

\* A faulty range, to show what the ceiling is for: 0..=120.
RangeNext_Inclusive(i) == IF i <= POLL_ATTEMPTS THEN "request" ELSE "none"

\* Lines 38 and 48: the range 0..120 after i iterations gives another
\* iteration, or the loop is left and None returned.
RangeNext(i) == IF i < POLL_ATTEMPTS THEN "request" ELSE "none"

\* A faulty test of the status, to show what it is for: every response is
\* returned.
OnResponse_ReturnsAny(status) == "some"

\* Lines 41-45: any status but DoneValid is waited on; DoneValid returns.
OnResponse(status) == IF status # K_DoneValid THEN "delay" ELSE "some"

\* Line 39: one request; an error returns None (.ok()?).
PollRequest(r) ==
  /\ wpc = "request"
  /\ wi' = wi + 1
  /\ wlast' = Some(r)
  /\ wpc' = IF r.ok THEN OnResponse(r.v) ELSE "none"
  /\ UNCHANGED <<session, wms, wmain>>

\* What client.result may give: the session's status, or an error.
PollOutcomes == {Ok(session), Err("request")}

\* Line 42: delay_for has elapsed; the range is asked for the next iteration.
PollDelay ==
  /\ wpc = "delay"
  /\ wms' = wms + POLL_DELAY_MS
  /\ wpc' = RangeNext(wi)
  /\ UNCHANGED <<session, wi, wlast, wmain>>

\* Lines 110-114 of decrypt: unwrap of the Option, and then of the key.
PollUnwrap ==
  /\ wpc \in {"some", "none"}
  /\ wmain = "waiting"
  /\ wmain' = IF wpc = "some" THEN "key" ELSE "panic"
  /\ UNCHANGED <<session, wpc, wi, wms, wlast>>

(***************************************************************************)
(* The paths the client asks for (pg-cli/src/client.rs) and the resources  *)
(* the server routes them to (pg-pkg/src/server.rs, exec).  A path is the  *)
(* sequence of its segments, a segment a string.                           *)
(***************************************************************************)
S_v2 == <<118, 50>>
S_parameters == <<112, 97, 114, 97, 109, 101, 116, 101, 114, 115>>
S_sign == <<115, 105, 103, 110>>
S_irma == <<105, 114, 109, 97>>
S_request == <<114, 101, 113, 117, 101, 115, 116>>
S_start == <<115, 116, 97, 114, 116>>
S_jwt == <<106, 119, 116>>
S_metrics == <<109, 101, 116, 114, 105, 99, 115>>

\* Url::parse(baseurl).join(u), on the paths: the last segment of the base
\* (what follows its last slash) gives way to the relative path.
Client_create_url(base, u) == Take(base, Len(base) - 1) \o u

\* The method and the relative path of each request of Client; arg is the
\* session token or the timestamp.
ClientRequest(op, arg) ==
  CASE op = "parameters" -> [method |-> "GET", u |-> <<S_v2, S_parameters>>]
    [] op = "signing_parameters" -> [method |-> "GET", u |-> <<S_v2, S_sign, S_parameters>>]
    [] op = "request_start" -> [method |-> "POST", u |-> <<S_v2, S_irma, S_start>>]
    [] op = "request_jwt" -> [method |-> "GET", u |-> <<S_v2, S_irma, S_jwt, arg>>]
    [] op = "request_decryption_key" ->
         [method |-> "GET", u |-> <<S_v2, S_irma, S_key, Digits(arg)>>]
    [] op = "request_signing_key" -> [method |-> "GET", u |-> <<S_v2, S_irma, S_key, S_sign>>]

Lit(s) == [kind |-> "lit", s |-> s]
OneOf(ss) == [kind |-> "re", ss |-> ss]
Param(name) == [kind |-> "param", name |-> name]

\* The resources of exec in the order of their registration, each with the
\* pattern of its scopes before its own.  The scopes' prefixes keep the
\* resources of one scope from the paths of another, so the first resource
\* whose pattern takes the path is the one actix-web serves.
ServerResources ==
  << [pattern |-> <<Lit(S_metrics)>>, method |-> "GET", handler |-> "metrics"],
     [pattern |-> <<Lit(S_v2), Lit(S_parameters)>>, method |-> "GET", handler |-> "parameters"],
     [pattern |-> <<Lit(S_v2), Lit(S_sign), Lit(S_parameters)>>, method |-> "GET",
      handler |-> "sign/parameters"],
     [pattern |-> <<Lit(S_v2), OneOf({S_irma, S_request}), Lit(S_start)>>, method |-> "POST",
      handler |-> "request"],
     [pattern |-> <<Lit(S_v2), OneOf({S_irma, S_request}), Lit(S_jwt), Param("token")>>,
      method |-> "GET", handler |-> "request_jwt"],
     [pattern |-> <<Lit(S_v2), OneOf({S_irma, S_request}), Lit(S_key), Param("timestamp")>>,
      method |-> "GET", handler |-> "request_key"],
     [pattern |-> <<Lit(S_v2), OneOf({S_irma, S_request}), Lit(S_sign), Lit(S_key)>>,
      method |-> "GET", handler |-> "request_signing_key"] >>

\* Whether a pattern takes a path: as many segments, each literal equal, each
\* regex matched, a parameter taking any segment that is not empty.
Matches(pattern, path) ==
  /\ Len(pattern) = Len(path)
  /\ \A i \in 1..Len(path) :
       CASE pattern[i].kind = "lit" -> path[i] = pattern[i].s
         [] pattern[i].kind = "re" -> path[i] \in pattern[i].ss
         [] pattern[i].kind = "param" -> path[i] # <<>>

\* The parameters a pattern binds in a path.
PathParams(pattern, path) ==
  [name \in { pattern[i].name : i \in { j \in 1..Len(pattern) : pattern[j].kind = "param" } } |->
     path[CHOOSE i \in 1..Len(pattern) : pattern[i].kind = "param" /\ pattern[i].name = name]]

\* The service of a request: the first resource whose pattern takes the
\* path; 404 if there is none, 405 if it has no route for the method.
Route(resources, method, path) ==
  LET hits == { i \in 1..Len(resources) : Matches(resources[i].pattern, path) }
  IN IF hits = {} THEN [handler |-> "404", params |-> <<>>]
     ELSE LET r == resources[CHOOSE i \in hits : \A j \in hits : i <= j]
          IN IF r.method # method THEN [handler |-> "405", params |-> <<>>]
             ELSE [handler |-> r.handler, params |-> PathParams(r.pattern, path)]

VARIABLES
  rreq,     \* the request a client sent: the operation, its argument, method and path
  rres      \* where the server routed it: the handler and the path parameters

routeVars == <<rreq, rres>>

RouteInit == rreq = None /\ rres = None

\* A method of Client sends its request to the PKG at baseurl.
ClientSend(base, op, arg) ==
  /\ rreq = None
  /\ LET q == ClientRequest(op, arg)
     IN rreq' = Some([op |-> op, arg |-> arg, method |-> q.method,
                      path |-> Client_create_url(base, q.u)])
  /\ UNCHANGED rres

\* The server routes the request.
ServerRoute ==
  /\ rreq # None
  /\ rres = None
  /\ rres' = Some(Route(ServerResources, rreq.v.method, rreq.v.path))
  /\ UNCHANGED rreq

\* The base URLs of a PKG served at the root of its host: with an empty
\* path, and with a last segment that join replaces.
BasePaths == { <<<<>>>>, <<<<112, 107, 103>>>> }
\* Session tokens and timestamps.
SessionTokens == { <<97>>, <<97, 98, 49>>, S_sign, S_key, S_start, <<48>> }
RouteTimestamps == 0..40
ClientOps ==
  {"parameters", "signing_parameters", "request_start", "request_jwt",
   "request_decryption_key", "request_signing_key"}
ClientArgs(op) ==
  CASE op = "request_jwt" -> SessionTokens
    [] op = "request_decryption_key" -> RouteTimestamps
    [] OTHER -> {<<>>}

(***************************************************************************)
(* Specifications.  Spec: seal, and the unsealer on what it wrote.         *)
(* SpecHeader: a caller of the Header API.  SpecSize: the header length    *)
(* seal writes for policies of any size.                                   *)
(***************************************************************************)
\* The variables of the parts around the envelope: the artifact codec, the
\* PKG and the requests routed to it, the client waiting for the key; and the
\* parser of damaged headers.
laterVars == <<artifactVars, pkgVars, pollVars, parseVars, routeVars>>

vars == <<sealVars, unsealVars, headerVars, sizeVars, laterVars>>

Init ==
  /\ SealInit /\ UnsealInit /\ HeaderInit /\ SizeInit
  /\ ArtifactInit /\ PkgInit /\ PollInit /\ ParseInit /\ RouteInit

HeaderRecipientIds == RecipientIds \cup {<<97, 34>>}

Next ==
  \/ /\ \E m \in MasterKeys, P \in SealPolicyMaps, X \in Plaintexts, s \in Secrets, seed \in IvSeeds :
          SealBegin(m, P, X, s, seed)
     /\ UNCHANGED <<unsealVars, headerVars, sizeVars, laterVars>>
  \/ SealPreamble /\ UNCHANGED <<unsealVars, headerVars, sizeVars, laterVars>>
  \/ (\E k \in 0..3 : SealPreambleFails(k)) /\ UNCHANGED <<unsealVars, headerVars, sizeVars, laterVars>>
  \/ (\E read \in 0..ChunkSize : SealLoop(read)) /\ UNCHANGED <<unsealVars, headerVars, sizeVars, laterVars>>
  \/ SealReadFails /\ UNCHANGED <<unsealVars, headerVars, sizeVars, laterVars>>
  \/ /\ \E read \in 0..ChunkSize, part \in 0..(ChunkSize + TAG_SIZE) : SealWriteFails(read, part)
     /\ UNCHANGED <<unsealVars, headerVars, sizeVars, laterVars>>
  \/ DeliverWritten /\ UNCHANGED <<headerVars, sizeVars, laterVars>>
  \/ DeliverContainer /\ UNCHANGED <<headerVars, sizeVars, laterVars>>
  \/ UnsealerNew /\ UNCHANGED <<headerVars, sizeVars, laterVars>>
  \/ (\E rid \in RecipientIds, usk \in Usks : UnsealBegin(rid, usk)) /\ UNCHANGED <<headerVars, sizeVars, laterVars>>
  \/ UnsealStep /\ UNCHANGED <<headerVars, sizeVars, laterVars>>

Spec == Init /\ [][Next]_vars

NextHeader ==
  \/ /\ \E m \in MasterKeys, P \in HeaderPolicyMaps, s \in Secrets, seed \in IvSeeds :
          HeaderNew(m, P, s, seed)
     /\ UNCHANGED <<sealVars, unsealVars, sizeVars, laterVars>>
  \/ (\E mode \in HeaderModes : WithMode(mode)) /\ UNCHANGED <<sealVars, unsealVars, sizeVars, laterVars>>
  \/ (\E algo \in HeaderAlgos : WithAlgo(algo)) /\ UNCHANGED <<sealVars, unsealVars, sizeVars, laterVars>>
  \/ MsgpackInto /\ UNCHANGED <<sealVars, unsealVars, sizeVars, laterVars>>
  \/ ToJsonString /\ UNCHANGED <<sealVars, unsealVars, sizeVars, laterVars>>
  \/ MsgpackFrom /\ UNCHANGED <<sealVars, unsealVars, sizeVars, laterVars>>
  \/ FromJsonString /\ UNCHANGED <<sealVars, unsealVars, sizeVars, laterVars>>
  \/ Transcode /\ UNCHANGED <<sealVars, unsealVars, sizeVars, laterVars>>
  \/ /\ \E from \in {1, 2}, rid \in HeaderRecipientIds, usk \in Usks : DeriveKeys(from, rid, usk)
     /\ UNCHANGED <<sealVars, unsealVars, sizeVars, laterVars>>

SpecHeader == Init /\ [][NextHeader]_vars

NextSize ==
  \/ /\ \E n \in RecipientCounts, id_len \in IdLens, k \in AttributeCounts, t_len \in TypeLens :
          SealHeaderLength(n, id_len, k, t_len)
     /\ UNCHANGED <<sealVars, unsealVars, headerVars, laterVars>>
  \/ UnsealHeaderLength /\ UNCHANGED <<sealVars, unsealVars, headerVars, laterVars>>

SpecSize == Init /\ [][NextSize]_vars

NextParse ==
  \/ /\ \E m \in MasterKeys, P \in HeaderPolicyMaps, s \in Secrets, seed \in IvSeeds :
          HeaderNew(m, P, s, seed)
     /\ UNCHANGED <<sealVars, unsealVars, sizeVars, laterVars>>
  \/ (\E mode \in HeaderModes : WithMode(mode)) /\ UNCHANGED <<sealVars, unsealVars, sizeVars, laterVars>>
  \/ (\E algo \in HeaderAlgos : WithAlgo(algo)) /\ UNCHANGED <<sealVars, unsealVars, sizeVars, laterVars>>
  \/ /\ header # None
     /\ \E d \in Damages(header.v), fmt \in ParseFormats : ParseDamaged(d, fmt)
     /\ UNCHANGED <<sealVars, unsealVars, headerVars, sizeVars, artifactVars, pkgVars, pollVars, routeVars>>

SpecParse == Init /\ [][NextParse]_vars

\* The variables of the envelope and of its header.
envelopeVars == <<sealVars, unsealVars, headerVars, sizeVars, parseVars, routeVars>>

NextArtifacts ==
  \/ (\E pk \in MasterKeys : ArtifactEncode("pk", pk)) /\ UNCHANGED <<envelopeVars, pkgVars, pollVars>>
  \/ (\E usk \in Usks : ArtifactEncode("usk", usk)) /\ UNCHANGED <<envelopeVars, pkgVars, pollVars>>
  \/ (\E t \in AlteredTexts(atext) : ArtifactAlter(t)) /\ UNCHANGED <<envelopeVars, pkgVars, pollVars>>
  \/ ArtifactDecode /\ UNCHANGED <<envelopeVars, pkgVars, pollVars>>

SpecArtifacts == Init /\ [][NextArtifacts]_vars

NextPkg ==
  \/ (\E m \in MasterKeys : PkgSetup(m)) /\ UNCHANGED <<envelopeVars, artifactVars, pollVars>>
  \/ /\ \E con \in StartCons, validity \in Validities, isSigning \in BOOLEAN, irma \in IrmaOutcomes :
          Start(KeyRequest(con, validity), isSigning, irma)
     /\ UNCHANGED <<envelopeVars, artifactVars, pollVars>>
  \/ /\ \E route \in {"parameters", "sign/parameters"}, modified \in {1, 2} :
          GetParameters(route, modified)
     /\ UNCHANGED <<envelopeVars, artifactVars, pollVars>>
  \/ /\ \E pol \in Policies \cup {PolicyA_OtherValue}, s \in Secrets : Encaps(pol, s)
     /\ UNCHANGED <<envelopeVars, artifactVars, pollVars>>
  \/ /\ \E sess \in Sessions, timestamp \in Timestamps : GetKey(sess, timestamp)
     /\ UNCHANGED <<envelopeVars, artifactVars, pollVars>>
  \/ Decaps /\ UNCHANGED <<envelopeVars, artifactVars, pollVars>>

SpecPkg == Init /\ [][NextPkg]_vars

NextRoutes ==
  \/ /\ \E base \in BasePaths, op \in ClientOps : \E arg \in ClientArgs(op) : ClientSend(base, op, arg)
     /\ UNCHANGED <<sealVars, unsealVars, headerVars, sizeVars, artifactVars, pkgVars, pollVars, parseVars>>
  \/ ServerRoute /\ UNCHANGED <<sealVars, unsealVars, headerVars, sizeVars, artifactVars, pkgVars, pollVars, parseVars>>

SpecRoutes == Init /\ [][NextRoutes]_vars

\* The steps of the client: the request, the delay, the caller's unwraps.
PollClient ==
  \/ (\E r \in PollOutcomes : PollRequest(r)) /\ UNCHANGED <<envelopeVars, artifactVars, pkgVars>>
  \/ PollDelay /\ UNCHANGED <<envelopeVars, artifactVars, pkgVars>>
  \/ PollUnwrap /\ UNCHANGED <<envelopeVars, artifactVars, pkgVars>>

NextPoll ==
  \/ (\E s \in KeyStatuses : SessionStep(s)) /\ UNCHANGED <<envelopeVars, artifactVars, pkgVars>>
  \/ (\E r \in PollOutcomes : PollRequest(r)) /\ UNCHANGED <<envelopeVars, artifactVars, pkgVars>>
  \/ PollDelay /\ UNCHANGED <<envelopeVars, artifactVars, pkgVars>>
  \/ PollUnwrap /\ UNCHANGED <<envelopeVars, artifactVars, pkgVars>>

SpecPoll == Init /\ [][NextPoll]_vars

\* The runtime runs the client's future on: a request it made comes back
\* (with a response or an error) and a delay it awaits elapses.  Nothing is
\* assumed of the session.
SpecPollLive == Init /\ [][NextPoll]_vars /\ WF_vars(PollClient)

(***************************************************************************)
(* Properties of seal and of the unsealer (Spec).                          *)
(***************************************************************************)
\* The segments the plaintext calls for: floor(n/s) non-final segments of s
\* bytes each, then the final segment with the remaining n mod s bytes.
ExpectedSegments ==
  LET n == Len(plain)
      s == meta.chunk_size
      full == n \div s
  IN [k \in 1..(full + 1) |->
        AeadSeal(enc.key, StreamNonce(enc.prefix, k - 1, IF k <= full THEN 0 ELSE 1),
                 SubSeq(plain, (k - 1) * s + 1, IF k <= full THEN k * s ELSE n))]

\* The positions in ws where the tag of a final segment starts.
FinalMarks(ws) ==
  { i \in 1..Len(ws) : ws[i].c = "tag" /\ ws[i].j = 1 /\ ws[i].nonce.last = 1 }

\* The caller unseals with the identifier it chose and the USK of that
\* identifier's policy.
RightUsk == uid \in DOMAIN policies /\ uusk = extract_usk(mk, derive(policies[uid]))

UnsealErrors == {"FormatViolation", "ConstraintViolation", "AuthenticationFailure", "panic"}

\* What seal writes before the segments: the prelude, the version and a
\* length, and then, as the header, all that Metadata::msgpack_into writes:
\* prelude, version and length again, and the encoding of the Metadata.
SealWritesTwoPreambles ==
  pc \in {"loop", "ok"} =>
    LET H == MetadataBytes(meta)
        inner == PRELUDE \o BE16(VERSION_V2) \o BE32(Len(H)) \o H
    IN IsPrefix(Plain(PRELUDE \o BE16(VERSION_V2) \o BE32(Len(inner)) \o inner), w)

\* In the container of 4.5 around the encoding of the Metadata alone, the
\* untampered stream unseals to the plaintext for every recipient.
ContainerRoundTrips ==
  (deliv.frame = "container" /\ deliv.tamper = "none" /\ upc \notin {"none", "new", "ready"}
     /\ RightUsk)
    => /\ upc \notin UnsealErrors
       /\ IsPrefix(out, plain)
       /\ upc = "ok" => out = plain

\* C1: unsealing the envelope seal wrote, with any of its identifiers and the
\* USK of that identifier's policy, does not fail and yields the plaintext:
\* the unsealer fails only after it has parsed the header and been given
\* a USK that is not the identifier's.
C1_RoundTrip ==
  deliv.frame = "written" =>
    /\ upc \in UnsealErrors => (umeta # NoMeta /\ ~RightUsk)
    /\ (upc = "ok" /\ RightUsk) => out = plain

\* C2: when seal returns Ok it has written exactly one final segment, which
\* is the last thing written; before that it has written none; for an empty
\* plaintext the final segment is a tag and nothing else.
C2_OneFinalSegment ==
  /\ pc \in {"init", "preamble", "loop"} => FinalMarks(w) = {}
  /\ pc = "ok" =>
       /\ Cardinality(FinalMarks(w)) = 1
       /\ \A i \in FinalMarks(w) :
            /\ i + TAG_SIZE - 1 = Len(w)
            /\ i > Len(w[i].body)
            /\ SubSeq(w, i - Len(w[i].body), Len(w)) = AeadSeal(w[i].key, w[i].nonce, w[i].body)
       /\ plain = <<>> =>
            /\ Len(SealedBody) = TAG_SIZE
            /\ \A i \in 1..Len(SealedBody) : SealedBody[i].c = "tag"

\* seal returned Ok on an empty plaintext.
C2_Witness == pc = "ok" /\ plain = <<>> /\ Len(SealedBody) = TAG_SIZE

\* C3: what seal wrote is the prelude, the version, the header length, the
\* header (that many bytes, the compact binary encoding of the header and
\* nothing else), and the ciphertext segments.
C3_Layout ==
  pc = "ok" => w = Envelope(MetadataBytes(meta), Cat(ExpectedSegments))

\* C4: for n plaintext bytes and segment size s, seal writes floor(n/s)
\* non-final segments of s + 16 bytes, each sealing the next s plaintext
\* bytes, then one final segment sealing the remaining n mod s bytes,
\* however the reader split its reads.
C4_Segments ==
  pc = "ok" =>
    LET n == Len(plain)
        s == meta.chunk_size
    IN /\ Len(SealedSegments) = n \div s + 1
       /\ SealedSegments = ExpectedSegments
       /\ SealedBody = Cat(ExpectedSegments)
       /\ \A k \in 1..(n \div s) : Len(SealedSegments[k]) = s + TAG_SIZE
       /\ Len(SealedSegments[n \div s + 1]) = (n % s) + TAG_SIZE

\* seal returned Ok on a plaintext of three segments and a byte: four segments.
C4_Witness ==
  pc = "ok" /\ Len(plain) = 3 * meta.chunk_size + 1 /\ Len(SealedSegments) = 4

\* C5: the unsealer hands out nothing but the plaintext of the segments it
\* authenticated, in order; a tag failure ends the unsealing for good; a byte
\* corrupted in a segment leaves that segment's plaintext unwritten; a stream
\* truncated or reordered at segment boundaries is never accepted.
C5_TagFailureFatal ==
  /\ [](/\ IsPrefix(out, plain)
        /\ upc = "AuthenticationFailure" => Len(out) = dec.ctr * umeta.chunk_size
        /\ deliv.tamper = "corrupt" =>
             upc # "ok" /\ Len(out) <= (deliv.i - 1) * meta.chunk_size
        /\ deliv.tamper \in {"truncate", "drop", "swap"} => upc # "ok")
  /\ [][upc = "AuthenticationFailure" => UNCHANGED unsealVars]_vars

\* A byte of the second segment was corrupted: the unsealer wrote the first
\* segment's plaintext and failed on the second.
C5_Witness ==
  /\ upc = "AuthenticationFailure"
  /\ deliv.tamper = "corrupt" /\ deliv.i = 2 /\ deliv.j = 5
  /\ RightUsk
  /\ out = SubSeq(plain, 1, meta.chunk_size)

\* Two recipients, with distinct policies.
TwoDistinctRecipients ==
  /\ Cardinality(DOMAIN policies) = 2
  /\ \A a, b \in DOMAIN policies : a # b => policies[a] # policies[b]

\* The caller unseals with the USK of the chosen identifier's policy one
\* second later.
LaterUsk ==
  /\ uid \in DOMAIN policies
  /\ uusk = extract_usk(mk, derive([policies[uid] EXCEPT !.timestamp = @ + 1]))

\* C16: what was sealed once for two recipients with distinct policies
\* unseals to the plaintext with either recipient's own USK (the unsealer
\* fails only on another USK), and with the USK of the same policy at
\* timestamp + 1 the unsealer gets no further than the KEM: it ends with Kem.
C16_TwoRecipients ==
  (TwoDistinctRecipients /\ deliv.tamper = "none") =>
    /\ upc \in UnsealErrors => (umeta # NoMeta /\ ~RightUsk)
    /\ (upc = "ok" /\ RightUsk) => out = plain
    /\ LaterUsk =>
         /\ upc \notin {"stream", "ok"}
         /\ upc \in UnsealErrors => upc = "Kem"

\* C22: derive_keys never fails, and the key seal gives the cipher is the
\* AEAD key it returned: 16 bytes, starting the digest of the shared secret,
\* the 16 bytes of the MAC key being the digest's second half.
C22_KeysTotal ==
  /\ pc # "panic"
  /\ pc \in {"preamble", "loop", "ok", "io_err"} =>
       LET ks == derive_keys(enc.key.h[1], key_size)
       IN /\ ~ks.panics
          /\ enc.key = ks.aes_key
          /\ ks.aes_key.lo = 0 /\ KeyLen(ks.aes_key) = 16
          /\ ks.mac_key.lo = DIGEST_SIZE \div 2 /\ KeyLen(ks.mac_key) = 16

\* The final segments that are in ws whole, to the last byte of the tag.
CompleteFinals(ws) == { i \in FinalMarks(ws) : i + TAG_SIZE - 1 <= Len(ws) }

\* C26: once seal has returned an I/O error (of a write of the preamble, of
\* a read, of a write of a segment) it writes nothing more, and what it has
\* written holds no whole final segment: at most the part of one that
\* write_all got out before it failed.
C26_NoFinalAfterIoError ==
  /\ [](pc = "io_err" => CompleteFinals(w) = {})
  /\ [][pc = "io_err" => (pc' = "io_err" /\ w' = w)]_vars

\* The write of the final segment has failed one byte short of its end.
C26_Witness ==
  /\ pc = "io_err"
  /\ FinalMarks(w) # {}
  /\ Len(w) > PREAMBLE_SIZE + TAG_SIZE

(***************************************************************************)
(* Properties of the Header API (SpecHeader).                              *)
(***************************************************************************)
\* The USK of the policy the sender gave for the recipient derive_keys ran on.
DerivedWithRightUsk ==
  /\ derived # None
  /\ derived.v.rid \in DOMAIN hpolicies
  /\ derived.v.usk = extract_usk(hpk, derive(hpolicies[derived.v.rid]))

\* C6: a header decoded from either encoding has every recipient of the
\* policy map, and derive_keys on a recipient's entry with the USK of that
\* recipient's policy returns the shared secret Header::new returned.
C6_SharedSecretAgreement ==
  /\ decoded1 # None => decoded1.v.ok /\ DOMAIN decoded1.v.v.policies = DOMAIN hpolicies
  /\ decoded2 # None => decoded2.v.ok /\ DOMAIN decoded2.v.v.policies = DOMAIN hpolicies
  /\ DerivedWithRightUsk => derived.v.res = Ok(ss1.v)

\* Of two recipients with distinct policies, the second derived the sender's
\* secret from the header decoded from JSON.
C6_Witness ==
  /\ DerivedWithRightUsk
  /\ derived.v.from = 2
  /\ derived.v.rid = <<98>>
  /\ hpolicies = ((<<97>> :> PolicyA) @@ (<<98>> :> PolicyB))
  /\ derived.v.res = Ok(ss1.v)

\* C7: decoding the MessagePack encoding of a header, and decoding its JSON
\* encoding, yields the header: identifiers, hidden policies, ciphertexts,
\* algorithm with its IV, and mode.
C7_EncodingRoundTrips ==
  /\ decoded1 # None => decoded1.v = Ok(header.v)
  /\ decoded2 # None => decoded2.v = Ok(header.v)

\* A header with a replaced mode and algorithm was decoded from both encodings.
C7_Witness ==
  /\ decoded1 # None /\ decoded2 # None
  /\ decoded1.v = Ok(header.v) /\ decoded2.v = Ok(header.v)
  /\ header.v.mode = InMemory(1024)
  /\ header.v.algo.name = S_XSalsa20Poly1305
  /\ DOMAIN header.v.policies = {<<97, 34>>}

\* C8: the JSON text transcoded from the MessagePack encoding of a header is
\* the JSON encoding of that header.
C8_TranscodeEqualsJson ==
  (s1 # None /\ s2 # None) => s2.v = Ok(s1.v)

\* A header whose mode and algorithm were replaced was transcoded.
C8_Witness ==
  /\ s1 # None /\ s2 # None
  /\ s2.v = Ok(s1.v)
  /\ header.v.mode = InMemory(1024)
  /\ header.v.algo = Algorithm(S_Aegis128, RngBytes(7, 16))
  /\ Cardinality(DOMAIN header.v.policies) = 2

\* C9: every header has at least one recipient, and every recipient's
\* ciphertext has the size of the KEM's output.
C9_HeaderInvariant ==
  header # None =>
    /\ DOMAIN header.v.policies # {}
    /\ \A rid \in DOMAIN header.v.policies : Len(header.v.policies[rid].ct) = CtBytes

\* C21: Header::new gives every identifier of the policy map, and no other,
\* one RecipientHeader: the hidden form of that identifier's own policy
\* (its timestamp, its attribute types in order, no value) and the
\* ciphertext multi_encaps made for the identity of that policy, which that
\* policy's USK opens to the shared secret; a recipient with another policy
\* has another ciphertext.
C21_OneHeaderPerRecipient ==
  header # None =>
    LET rs == header.v.policies
    IN /\ DOMAIN rs = DOMAIN hpolicies
       /\ \A rid \in DOMAIN hpolicies :
            LET p == hpolicies[rid]
                h == rs[rid].policy
            IN /\ h.timestamp = p.timestamp
               /\ Len(h.con) = Len(p.con)
               /\ \A i \in 1..Len(p.con) :
                    /\ h.con[i].atype = p.con[i].atype
                    /\ h.con[i].hidden_value = None
               /\ rs[rid].ct = KemCt(hpk, derive(p), ss1.v)
               /\ multi_decaps(extract_usk(hpk, derive(p)), rs[rid].ct) = ss1.v
               /\ \A other \in DOMAIN hpolicies :
                    hpolicies[other] # p =>
                      /\ rs[other].ct # rs[rid].ct
                      /\ multi_decaps(extract_usk(hpk, derive(hpolicies[other])), rs[rid].ct) # ss1.v

\* A header for two recipients with distinct policies.
C21_Witness ==
  /\ header # None
  /\ DOMAIN header.v.policies = {<<97>>, <<98>>}
  /\ hpolicies[<<97>>] # hpolicies[<<98>>]

\* C23: parsing an encoding in which a recipient's ct has another length
\* than the KEM's, or in which algo or mode names (or numbers) a variant
\* the enum does not have, fails with FormatViolation; a header that parsing
\* returns has every ct of the KEM's length and known variants, and the
\* undamaged encoding parses to the header it was made from.
C23_ParseRejects ==
  parsed # None =>
    LET d == parsed.v.damage
        r == parsed.v.res
    IN /\ d.kind \in {"ct", "algo", "mode"} => r = Err("FormatViolation")
       /\ r.ok =>
            /\ \A rid \in DOMAIN r.v.policies : Len(r.v.policies[rid].ct) = CtBytes
            /\ \E i \in 1..Len(AlgorithmNames) : r.v.algo.name = AlgorithmNames[i]
            /\ \E i \in 1..Len(ModeNames) : r.v.mode.name = ModeNames[i]
       /\ d.kind = "none" => r = Ok(parsed.v.of)

\* A ct one byte longer than the KEM's has been refused, in MessagePack.
C23_Witness ==
  /\ parsed # None
  /\ parsed.v.damage.kind = "ct"
  /\ parsed.v.damage.n = CtBytes + 1
  /\ parsed.v.fmt = "msgpack"
  /\ parsed.v.res = Err("FormatViolation")

(***************************************************************************)
(* Properties of the header length (SpecSize, Spec).                       *)
(***************************************************************************)
\* MpLen is the length of the encoding, on the Metadata seal built.
MpLenIsLength ==
  pc \in {"loop", "ok"} => MpLen(MetadataValue(meta)) = Len(MetadataBytes(meta))

\* C10: the header length seal writes is at most MAX_METADATA_SIZE, so the
\* unsealer's cap never rejects what seal wrote.
C10_HeaderLengthCap ==
  /\ zpc # "init" => zlen <= MAX_METADATA_SIZE
  /\ zpc # "ConstraintViolation"

(***************************************************************************)
(* Properties of the artifact codec (SpecArtifacts).                       *)
(***************************************************************************)
ArtifactBytes(kind, x) == IF kind = "pk" THEN Pk_to_bytes(x) ELSE Usk_to_bytes(x)
ArtifactLen(kind) == IF kind = "pk" THEN PK_BYTES ELSE USK_BYTES

\* C11: decoding the base64 text of a public key or of a user secret key
\* succeeds and yields an artifact with the same canonical bytes; the text
\* is b64len characters long.
C11_ArtifactRoundTrip ==
  /\ apc \in {"encoded", "decoded"} => Len(atext) = b64len(ArtifactLen(akind))
  /\ apc = "decoded" =>
       /\ ares.v.ok
       /\ ArtifactBytes(akind, ares.v.v) = ArtifactBytes(akind, asrc.v)

\* A user secret key whose text ends in padding has been decoded.
C11_Witness ==
  /\ apc = "decoded"
  /\ akind = "usk"
  /\ asrc.v = extract_usk(2, derive(PolicyB))
  /\ atext[Len(atext)] = PAD
  /\ ares.v.ok

\* The padded standard base64 texts that decode into at most cap bytes, by
\* their shape: whole blocks of four characters, at most two '=' and only
\* at the end, every other character of the alphabet, and no stray bits in
\* the character before the padding.
StructurallyValid(s, cap) ==
  LET n == Len(s)
      p == IF n >= 2 /\ s[n] = PAD THEN (IF s[n - 1] = PAD THEN 2 ELSE 1) ELSE 0
  IN /\ n % 4 = 0
     /\ \A i \in 1..(n - p) : B64Val(s[i]) >= 0
     /\ p = 1 => B64Val(s[n - 1]) % 4 = 0
     /\ p = 2 => B64Val(s[n - 2]) % 16 = 0
     /\ ((n - p) * 3) \div 4 <= cap

ValidityBit(kind, b) ==
  IF kind = "pk" THEN Pk_from_bytes(b).is_some ELSE Usk_from_bytes(b).is_some

\* C12: decoding returns an artifact exactly when the text is structurally
\* valid base64 and the scheme's from_bytes sets its validity bit for the
\* decoded buffer; otherwise it returns an error and no artifact: the
\* base64 error for a text that is not valid, else the artifact's error.
C12_DecodeIffValid ==
  apc \in {"decoded", "decoded altered"} =>
    LET valid == StructurallyValid(atext, ArtifactLen(akind))
    IN /\ valid <=> adec_buf.some
       /\ ares.v.ok <=> (valid /\ ValidityBit(akind, adec_buf.v))
       /\ ~valid => ares.v = Err("base64ct decoding error")
       /\ (valid /\ ~ValidityBit(akind, adec_buf.v)) =>
            ares.v \in {Err("not a public key"), Err("not a user secret key")}
       /\ adec_buf.some =>
            \E k \in 0..ArtifactLen(akind) :
              /\ EncodeBlocks(Take(adec_buf.v, k)) = atext
              /\ Drop(adec_buf.v, k) = Zeros(ArtifactLen(akind) - k)

\* A valid text of other bytes has been decoded, and the validity bit
\* refused them.
C12_Witness ==
  /\ apc = "decoded altered"
  /\ akind = "usk"
  /\ adec_buf.some
  /\ ~Usk_from_bytes(adec_buf.v).is_some
  /\ ares.v = Err("not a user secret key")
\* C28: a text whose base64 decodes to another number of bytes than the
\* artifact's length is refused: no artifact comes of fewer bytes filled up
\* with zeros.
C28_LengthChecked ==
  apc \in {"decoded", "decoded altered"} =>
    LET b64 == Base64_decode(atext, ArtifactLen(akind))
    IN (b64.ok /\ Len(b64.v) # ArtifactLen(akind)) => ~ares.v.ok

(***************************************************************************)
(* Properties of the PKG (SpecPkg).                                        *)
(***************************************************************************)
\* C13: start answers ValidityError exactly for a validity above the cap of
\* the requested kind (86400 s for a key, 8,640,000 s for a signing key) and
\* then sends nothing to the IRMA server; otherwise the validity it sends is
\* the given one, or 300 s if none was given, and it answers with the
\* session whenever the IRMA server does.
C13_ValidityClamp ==
  sresp.some =>
    LET v == sreq.v.kr.validity
        cap == IF sreq.v.isSigning THEN 8640000 ELSE 86400
        over == v.some /\ v.v > cap
    IN /\ over <=> sresp.v = Err("ValidityError")
       /\ over => ser = None
       /\ ser.some => ser.v.validity = Some(IF v.some THEN v.v ELSE 300)
       /\ sresp.v.ok <=> (~over /\ sreq.v.irma = "ok")
       /\ sresp.v.ok => ser.some /\ sresp.v.v = SessionData

\* A signing-key request with a validity of 86401 s has been answered with
\* a session.
C13_Witness ==
  /\ sresp.some
  /\ sreq.v.isSigning
  /\ sreq.v.kr.validity = Some(86401)
  /\ sresp.v.ok
  /\ ser.v.validity = Some(86401)

\* C24: the request start sends has one disjunction for each attribute of
\* the key request, in the request's order; each has a single alternative,
\* which asks for that attribute alone: its type, the requested value,
\* not_null set.
C24_DisclosureRequest ==
  ser.some =>
    LET con == sreq.v.kr.con
        discons == ser.v.request
    IN /\ Len(discons) = Len(con)
       /\ \A i \in 1..Len(con) :
            /\ Len(discons[i]) = 1
            /\ Len(discons[i][1]) = 1
            /\ discons[i][1][1].attr_type = con[i].atype
            /\ discons[i][1][1].value = con[i].value
            /\ discons[i][1][1].not_null

\* A request for two attributes has been sent on.
C24_Witness ==
  /\ ser.some
  /\ sreq.v.kr.con = PolicyB.con
  /\ Len(ser.v.request) = 2

\* C27: a request start answers with ValidityError has cost no session: none
\* was requested of the IRMA server; a request it answers with a session
\* has had exactly one requested, with the request start built; never is
\* more than one requested for a request.
C27_NoSessionOnValidityError ==
  sresp.some =>
    /\ sresp.v = Err("ValidityError") => (ocalls = 0 /\ ser = None)
    /\ sresp.v.ok => (ocalls = 1 /\ ser.some)
    /\ ocalls = (IF ser.some THEN 1 ELSE 0)

\* A request over the cap has been refused.
C27_Witness ==
  /\ sresp.some
  /\ sresp.v = Err("ValidityError")
  /\ sreq.v.irma = "ok"
  /\ ocalls = 0

\* C17: a response to GET /v2/parameters or /v2/sign/parameters carries
\* ETag, Last-Modified and Cache-Control, and the body of /v2/parameters
\* reads as Parameters with the master public key of the PKG and
\* format_version 0.
C17_ParametersResponse ==
  hresp.some =>
    /\ {"etag", "last-modified", "cache-control"} \subseteq DOMAIN hresp.v.resp.headers
    /\ hresp.v.route = "parameters" =>
         /\ hparams.v.ok
         /\ Pk_to_bytes(hparams.v.v.public_key) = Pk_to_bytes(gmk)
         /\ hparams.v.v.format_version = 0

\* The client has read the parameters of a PKG with master key pair 2.
C17_Witness ==
  /\ gmk = 2
  /\ hresp.some
  /\ hresp.v.route = "parameters"
  /\ hparams.v.ok
  /\ hparams.v.v.public_key = 2
\* C14: the key of a KeyResponse is there exactly when the session is Done,
\* its proof Valid and the disclosed attributes are those of the request,
\* type by type and value by value; this holds of the handler's response,
\* of its body and of what the client reads from it.
C14_KeyIffDoneValid ==
  kresp.some =>
    LET sess == ksess.v.sess
        released ==
          /\ sess.status = S_DONE
          /\ sess.proof_status = Some(S_VALID)
          /\ [i \in 1..Len(sess.disclosed) |-> sess.disclosed[i].atype]
               = [i \in 1..Len(sess.con) |-> sess.con[i].atype]
          /\ \A i \in 1..Len(sess.con) :
               /\ sess.disclosed[i].value # None
               /\ sess.con[i].value \in {None, sess.disclosed[i].value}
        body == JsonDec(kwire.v, 1).v
    IN /\ kresp.v.key.some <=> released
       /\ MapHas(body, S_key) <=> released
       /\ kclient.v.ok
       /\ kclient.v.v.key.some <=> released
       /\ kclient.v.v.status = sess.status
       /\ kclient.v.v.proof_status = sess.proof_status

\* The client has read a key, released for a request that left the value
\* open.
C14_Witness ==
  /\ kclient.some
  /\ kclient.v.ok
  /\ kclient.v.v.key.some
  /\ ksess.v.sess.con = <<Attribute(<<116>>, None)>>
  /\ ksess.v.sess.disclosed = PolicyA.con

\* The policy the key route issued the key for.
IssuedFor == [timestamp |-> ksess.v.timestamp, con |-> ksess.v.sess.disclosed]

\* C15: what the client decapsulates with the key the key route returned is
\* the sender's shared secret if the key was issued for the policy and
\* timestamp the sender encapsulated for (and so is what a key extracted
\* from the master secret key decapsulates), and another secret if the key
\* was issued for another policy or timestamp.
C15_KeyDecapsulates ==
  kss.some =>
    /\ IssuedFor = kem.v.pol =>
         /\ kss.v = kem.v.ss
         /\ decaps(extract_usk(gmk, derive(kem.v.pol)), kem.v.ct) = kem.v.ss
    /\ IssuedFor # kem.v.pol => kss.v # kem.v.ss

\* A key issued for the same attribute type with another value has been
\* used on the sender's ciphertext.
C15_Witness ==
  /\ kss.some
  /\ kem.v.pol = PolicyA
  /\ IssuedFor = PolicyA_OtherValue
  /\ kss.v # kem.v.ss
(***************************************************************************)
(* Properties of the client waiting for the key (SpecPoll, SpecPollLive).  *)
(***************************************************************************)
\* The loop's count and clock: a request is made after one delay for each
\* request before it, never more than POLL_ATTEMPTS of them.
PollPaced ==
  /\ wi <= POLL_ATTEMPTS
  /\ wpc = "request" => wms = wi * POLL_DELAY_MS
  /\ wpc = "delay" => wms = (wi - 1) * POLL_DELAY_MS
  /\ wpc = "some" => (wlast = Some(Ok(K_DoneValid)) /\ wms = (wi - 1) * POLL_DELAY_MS)
  /\ wpc = "none" =>
       \/ wlast = Some(Err("request")) /\ wms = (wi - 1) * POLL_DELAY_MS
       \/ /\ wi = POLL_ATTEMPTS
          /\ wms = POLL_ATTEMPTS * POLL_DELAY_MS
          /\ wlast.v.ok /\ wlast.v.v # K_DoneValid
  /\ wmain = "key" => wpc = "some"

TerminalFailures == {K_DoneInvalid, K_Cancelled, K_Timeout}

\* C19: a response that reports a terminal failure is the last one: the
\* client neither waits nor asks again after it, and only a response of
\* Initialized or Connected is followed by a delay.
C19_StopsOnTerminalFailure ==
  /\ (wlast.some /\ wlast.v.ok /\ wlast.v.v \in TerminalFailures) => wpc \notin {"delay", "request"}
  /\ wpc = "delay" => wlast.v.v \in {K_Initialized, K_Connected}
\* C25: the caller has the key, and creates the output file, only when
\* wait_on_session has returned a response, the last one it received, whose
\* status was DoneValid; after a DoneValid response, and after the caller
\* has gone on, no request is made.
C25_KeyOnlyAfterDoneValid ==
  /\ [](wmain = "key" => (wpc = "some" /\ wlast = Some(Ok(K_DoneValid))))
  /\ [][(wlast = Some(Ok(K_DoneValid)) \/ wmain # "waiting") => wi' = wi]_vars

\* The key is released at the third response, the two before it having
\* been waited on.
C25_Witness ==
  /\ wmain = "key"
  /\ wi = 3
  /\ wms = 2 * POLL_DELAY_MS
(***************************************************************************)
(* Properties of the routes (SpecRoutes).                                  *)
(***************************************************************************)
\* The handler of each operation of the client.
HandlerOf(op) ==
  CASE op = "parameters" -> "parameters"
    [] op = "signing_parameters" -> "sign/parameters"
    [] op = "request_start" -> "request"
    [] op = "request_jwt" -> "request_jwt"
    [] op = "request_decryption_key" -> "request_key"
    [] op = "request_signing_key" -> "request_signing_key"

\* C29: the server routes every request of the client to the handler of the
\* operation the client asked for, with the token or the timestamp the
\* client sent as the path parameter; the signing-key request is not
\* served by the handler of decryption keys.
C29_RoutesAgree ==
  rres # None =>
    /\ rres.v.handler = HandlerOf(rreq.v.op)
    /\ rreq.v.op = "request_jwt" => rres.v.params["token"] = rreq.v.arg
    /\ rreq.v.op = "request_decryption_key" => rres.v.params["timestamp"] = Digits(rreq.v.arg)
    /\ rreq.v.op = "request_signing_key" => rres.v.handler # "request_key"
====
